---- MODULE Spec2Model ----
(***************************************************************************)
(* Model of the resilience and matching core of google-sheet-mcp:          *)
(*   RateLimiter and RetryUtil        (src/utils/retry-utils.ts)           *)
(*   GoogleSheetsService              (src/services/google-sheets-service) *)
(* Texts are sequences of one-character strings.  Time is counted in       *)
(* ticks of MsPerTick milliseconds.                                        *)
(***************************************************************************)
EXTENDS Integers, Sequences, FiniteSets, TLC

VARIABLES
  clock,        \* Date.now(), in ticks
  requests,     \* RateLimiter.requests: the recorded timestamps
  maxRequests,  \* RateLimiter.maxRequests
  windowMs,     \* RateLimiter.windowMs, in ticks
  running,      \* the caller that holds the JavaScript thread, 0 when none does
  stack,        \* per caller: the executeWithRetry calls in progress, innermost last
  ret,          \* per caller: the completion of the executeWithRetry call that ended last
  args,         \* per caller: the method it calls and the arguments
  calls,        \* per caller: how many times it has called the method
  sheet,        \* the remote store: the cell values of the sheet
  faults,       \* the errors the remote API may answer a call with
  failures,     \* number of remote calls the store has failed so far
  admitted,     \* history: the timestamp of every admission, in order
  issued,       \* history: the number of remote calls issued
  writes,       \* history: every write the store committed, in order
  cellIn,       \* cell study: the inputs of one cell's replacement
  cellOut,      \* cell study: what lines 339-369 of smartReplace compute for it
  utilIn,       \* function study: the arguments of one call of a pure function
  utilOut       \* function study: what the call returned or threw

vars == <<clock, requests, maxRequests, windowMs, running, stack, ret, args, calls,
          sheet, faults, failures, admitted, issued, writes, cellIn, cellOut,
          utilIn, utilOut>>

machineVars == <<clock, requests, maxRequests, windowMs, running, stack, ret,
                 args, calls, sheet, faults, failures, admitted, issued, writes>>

\* The variables of the studies of single functions.
cellVars == <<cellIn, cellOut, utilIn, utilOut>>

----------------------------------------------------------------------------
(* Texts *)

\* Longest cell text, findText and replaceText of the cell study.
MaxCellLen == 3
MaxFindLen == 2
MaxReplaceLen == 2

Min(a, b) == IF a < b THEN a ELSE b

\* String.prototype.toLowerCase on one character (ASCII).
LowerChar(c) == IF c = "A" THEN "a" ELSE c

ToLowerCase(s) == [i \in 1..Len(s) |-> LowerChar(s[i])]

\* s.slice(i - 1, j) in 1-based positions i..j.
Slice(s, i, j) == IF j < i THEN <<>> ELSE SubSeq(s, i, j)

\* String.prototype.includes
Includes(s, t) ==
  \E i \in 1..(Len(s) - Len(t) + 1) : Slice(s, i, i + Len(t) - 1) = t

TextsUpTo(chars, n) == UNION {[1..k -> chars] : k \in 0..n}

----------------------------------------------------------------------------
(* Regular expressions, as far as smartReplace builds them *)

\* The characters the escape of smartReplace protects: . * + ? ^ $ { } ( ) | [ ] \
RegExpSpecial ==
  {".", "*", "+", "?", "^", "$", "{", "}", "(", ")", "|", "[", "]", "\\"}

RECURSIVE EscapeRegExp(_)
\* findText.replace(/[.*+?^${}()|[\]\\]/g, '\\$&')
EscapeRegExp(text) ==
  IF text = <<>> THEN <<>>
  ELSE (IF Head(text) \in RegExpSpecial THEN <<"\\", Head(text)>> ELSE <<Head(text)>>)
       \o EscapeRegExp(Tail(text))

RECURSIVE CompileRegExp(_)
\* new RegExp(source): the pattern as a sequence of atoms.  An escaped character
\* stands for itself, "." for any character, "$" for the end of the input.
CompileRegExp(source) ==
  IF source = <<>> THEN <<>>
  ELSE IF Head(source) = "\\" /\ Len(source) >= 2
       THEN <<[kind |-> "lit", ch |-> source[2]]>> \o CompileRegExp(Tail(Tail(source)))
  ELSE IF Head(source) = "."
       THEN <<[kind |-> "any", ch |-> "."]>> \o CompileRegExp(Tail(source))
  ELSE IF Head(source) = "$"
       THEN <<[kind |-> "end", ch |-> "$"]>> \o CompileRegExp(Tail(source))
  ELSE <<[kind |-> "lit", ch |-> Head(source)]>> \o CompileRegExp(Tail(source))

RECURSIVE MatchAt(_, _, _, _)
\* The length of the match of the atoms at position i of str (1-based), -1 when
\* there is none.  ignoreCase is the "i" flag.
MatchAt(atoms, str, i, ignoreCase) ==
  IF atoms = <<>> THEN 0
  ELSE LET a == Head(atoms) IN
    IF a.kind = "end"
    THEN IF i = Len(str) + 1 THEN MatchAt(Tail(atoms), str, i, ignoreCase) ELSE -1
    ELSE IF i > Len(str) THEN -1
    ELSE IF \/ a.kind = "any"
            \/ a.ch = str[i]
            \/ ignoreCase /\ LowerChar(a.ch) = LowerChar(str[i])
         THEN LET rest == MatchAt(Tail(atoms), str, i + 1, ignoreCase)
              IN IF rest < 0 THEN -1 ELSE rest + 1
         ELSE -1

RECURSIVE GetSubstitution(_, _, _, _)
\* ECMAScript GetSubstitution with no capture groups: in the replacement, $$ is a
\* "$", $& the matched text, $` the text before the match, $' the text after it.
GetSubstitution(matched, str, position, replacement) ==
  IF replacement = <<>> THEN <<>>
  ELSE IF Head(replacement) = "$" /\ Len(replacement) >= 2
       THEN LET c == replacement[2]
                rest == Tail(Tail(replacement))
            IN IF c = "$" THEN <<"$">> \o GetSubstitution(matched, str, position, rest)
               ELSE IF c = "&" THEN matched \o GetSubstitution(matched, str, position, rest)
               ELSE IF c = "`"
                    THEN Slice(str, 1, position - 1)
                         \o GetSubstitution(matched, str, position, rest)
               ELSE IF c = "'"
                    THEN Slice(str, position + Len(matched), Len(str))
                         \o GetSubstitution(matched, str, position, rest)
               ELSE <<"$">> \o GetSubstitution(matched, str, position, Tail(replacement))
  ELSE <<Head(replacement)>> \o GetSubstitution(matched, str, position, Tail(replacement))

RECURSIVE ReplaceFrom(_, _, _, _, _)
\* String.prototype.replace with a global regular expression, from position i on.
ReplaceFrom(str, atoms, ignoreCase, replacement, i) ==
  LET n == MatchAt(atoms, str, i, ignoreCase) IN
  IF i > Len(str)
  THEN IF n = 0 THEN GetSubstitution(<<>>, str, i, replacement) ELSE <<>>
  ELSE IF n > 0
       THEN GetSubstitution(Slice(str, i, i + n - 1), str, i, replacement)
            \o ReplaceFrom(str, atoms, ignoreCase, replacement, i + n)
  ELSE IF n = 0
       THEN GetSubstitution(<<>>, str, i, replacement) \o <<str[i]>>
            \o ReplaceFrom(str, atoms, ignoreCase, replacement, i + 1)
  ELSE <<str[i]>> \o ReplaceFrom(str, atoms, ignoreCase, replacement, i + 1)

\* str.replace(new RegExp(source, matchCase ? 'g' : 'gi'), replacement)
RegExpReplace(str, source, ignoreCase, replacement) ==
  ReplaceFrom(str, CompileRegExp(source), ignoreCase, replacement, 1)

----------------------------------------------------------------------------
(* Cell values *)

\* A cell value of the grid: a string, a number, a boolean, or absent.  text is
\* String(value).
StringCell(t) == [kind |-> "string", text |-> t]
NumberZero == [kind |-> "number", text |-> <<"0">>]
Absent == [kind |-> "absent", text |-> <<>>]

\* JavaScript truthiness, as `!cellValue` tests it: absent values, the empty
\* string, the number 0 and the boolean false are falsy.
Truthy(cell) ==
  /\ cell.kind # "absent"
  /\ ~(cell.kind = "string" /\ cell.text = <<>>)
  /\ ~(cell.kind = "number" /\ cell.text = <<"0">>)
  /\ ~(cell.kind = "boolean" /\ cell.text = <<"f", "a", "l", "s", "e">>)

----------------------------------------------------------------------------
(* smartReplace, the decision for one cell (lines 330-369) *)

\* What smartReplace decides for one cell value: whether it is replaced, and the
\* new value.  A falsy cell is skipped (line 339).
ReplaceCell(cellValue, findText, replaceText, matchCase, matchEntireCell) ==
  LET searchText == IF matchCase THEN findText ELSE ToLowerCase(findText)
      cellText == IF matchCase THEN cellValue.text ELSE ToLowerCase(cellValue.text)
  IN IF ~Truthy(cellValue)
     THEN [shouldReplace |-> FALSE, newValue |-> cellValue.text]
     ELSE IF matchEntireCell
          THEN IF cellText = searchText
               THEN [shouldReplace |-> TRUE, newValue |-> replaceText]
               ELSE [shouldReplace |-> FALSE, newValue |-> cellValue.text]
          ELSE IF Includes(cellText, searchText)
               THEN [shouldReplace |-> TRUE,
                     newValue |-> RegExpReplace(cellValue.text, EscapeRegExp(findText),
                                                ~matchCase, replaceText)]
               ELSE [shouldReplace |-> FALSE, newValue |-> cellValue.text]

----------------------------------------------------------------------------
(* SheetsUtils: A1 notation (src/utils/sheets-utils.ts) *)

Letters ==
  <<"A", "B", "C", "D", "E", "F", "G", "H", "I", "J", "K", "L", "M",
    "N", "O", "P", "Q", "R", "S", "T", "U", "V", "W", "X", "Y", "Z">>

Digits == <<"0", "1", "2", "3", "4", "5", "6", "7", "8", "9">>

IsLetter(c) == \E i \in 1..26 : Letters[i] = c
IsDigit(c) == \E i \in 1..10 : Digits[i] = c

\* c.charCodeAt(0) - 64 for an uppercase letter
LetterValue(c) == CHOOSE i \in 1..26 : Letters[i] = c
DigitValue(c) == (CHOOSE i \in 1..10 : Digits[i] = c) - 1

RECURSIVE DecimalText(_)
\* `${row}` for a non-negative integer
DecimalText(n) ==
  IF n < 10 THEN <<Digits[n + 1]>> ELSE DecimalText(n \div 10) \o <<Digits[(n % 10) + 1]>>

RECURSIVE ParseInt(_, _)
\* parseInt(rowStr, 10) for a text of digits, acc being the value read so far
ParseInt(text, acc) ==
  IF text = <<>> THEN acc ELSE ParseInt(Tail(text), acc * 10 + DigitValue(Head(text)))

RECURSIVE ColumnLettersZeroBased(_)
\* The while loop without `col--`: plain base 26 with A for 0.
ColumnLettersZeroBased(col) ==
  IF col <= 0 THEN <<>>
  ELSE ColumnLettersZeroBased(col \div 26) \o <<Letters[(col % 26) + 1]>>

RECURSIVE ColumnLetters(_)
\* The while loop of rowColToA1: col--, prepend the letter of col % 26, col /= 26.
ColumnLetters(col) ==
  IF col <= 0 THEN <<>>
  ELSE ColumnLetters((col - 1) \div 26) \o <<Letters[((col - 1) % 26) + 1]>>

RowColToA1(row, col) == ColumnLetters(col) \o DecimalText(row)

RECURSIVE ColumnNumberZeroBased(_, _)
\* The for loop with charCode - 65: A counts as 0.
ColumnNumberZeroBased(colStr, acc) ==
  IF colStr = <<>> THEN acc
  ELSE ColumnNumberZeroBased(Tail(colStr), acc * 26 + LetterValue(Head(colStr)) - 1)

RECURSIVE ColumnNumber(_, _)
\* The for loop of a1ToRowCol: col = col * 26 + (charCode - 64).
ColumnNumber(colStr, acc) ==
  IF colStr = <<>> THEN acc
  ELSE ColumnNumber(Tail(colStr), acc * 26 + LetterValue(Head(colStr)))

RECURSIVE LeadingLetters(_)
\* The length of the [A-Z]+ prefix of text.
LeadingLetters(text) ==
  IF text # <<>> /\ IsLetter(Head(text)) THEN 1 + LeadingLetters(Tail(text)) ELSE 0

NoAddress == [ok |-> FALSE, row |-> 0, col |-> 0]

RECURSIVE LeadingDigits(_)
\* The length of the [0-9]+ prefix of text.
LeadingDigits(text) ==
  IF text # <<>> /\ IsDigit(Head(text)) THEN 1 + LeadingDigits(Tail(text)) ELSE 0

\* a1ToRowCol with the pattern /^([A-Z]+)([0-9]+)/, not anchored at the end.
A1ToRowColUnanchored(a1) ==
  LET k == LeadingLetters(a1)
      n == LeadingDigits(Slice(a1, k + 1, Len(a1)))
  IN IF k >= 1 /\ n >= 1
     THEN [ok |-> TRUE, row |-> ParseInt(Slice(a1, k + 1, k + n), 0),
           col |-> ColumnNumber(Slice(a1, 1, k), 0)]
     ELSE NoAddress

\* a1ToRowCol: the match of /^([A-Z]+)([0-9]+)$/ and the decoding; ok = FALSE
\* stands for the thrown Error('Invalid A1 notation').
A1ToRowCol(a1) ==
  LET k == LeadingLetters(a1)
      colStr == Slice(a1, 1, k)
      rowStr == Slice(a1, k + 1, Len(a1))
  IN IF /\ k >= 1
        /\ rowStr # <<>>
        /\ \A i \in 1..Len(rowStr) : IsDigit(rowStr[i])
     THEN [ok |-> TRUE, row |-> ParseInt(rowStr, 0), col |-> ColumnNumber(colStr, 0)]
     ELSE NoAddress

RECURSIVE Split(_, _)
\* String.prototype.split on a one-character separator
Split(text, sep) ==
  IF \A i \in 1..Len(text) : text[i] # sep THEN <<text>>
  ELSE LET k == CHOOSE i \in 1..Len(text) :
                  text[i] = sep /\ \A j \in 1..(i - 1) : text[j] # sep
       IN <<Slice(text, 1, k - 1)>> \o Split(Slice(text, k + 1, Len(text)), sep)

NoRange == [ok |-> FALSE, startRow |-> 0, endRow |-> 0, startCol |-> 0, endCol |-> 0]

\* parseRange without the test of the number of parts: the first two are used.
ParseRangeFirstTwo(range) ==
  LET parts == Split(range, ":") IN
  IF Len(parts) < 2 \/ parts[1] = <<>> \/ parts[2] = <<>> THEN NoRange
  ELSE LET start == A1ToRowCol(parts[1])
           end == A1ToRowCol(parts[2])
       IN IF ~start.ok \/ ~end.ok THEN NoRange
          ELSE [ok |-> TRUE, startRow |-> start.row, endRow |-> end.row,
                startCol |-> start.col, endCol |-> end.col]

\* parseRange; ok = FALSE stands for the thrown Error.
ParseRange(range) ==
  LET parts == Split(range, ":") IN
  IF Len(parts) # 2 \/ parts[1] = <<>> \/ parts[2] = <<>> THEN NoRange
  ELSE LET start == A1ToRowCol(parts[1])
           end == A1ToRowCol(parts[2])
       IN IF ~start.ok \/ ~end.ok THEN NoRange
          ELSE [ok |-> TRUE, startRow |-> start.row, endRow |-> end.row,
                startCol |-> start.col, endCol |-> end.col]

\* createSheetRange
CreateSheetRange(sheetName, range) ==
  IF range # <<>> THEN sheetName \o <<"!">> \o range ELSE sheetName

\* isValidRange: parseRange in a try block
IsValidRange(range) == ParseRange(range).ok

NoSheetName == [found |-> FALSE, name |-> <<>>]

\* extractSheetName with the pattern /^(.+)!/: the prefix before the last "!".
ExtractSheetNameLast(range) ==
  IF \A i \in 1..Len(range) : range[i] # "!" THEN NoSheetName
  ELSE LET k == CHOOSE i \in 1..Len(range) :
                  range[i] = "!" /\ \A j \in (i + 1)..Len(range) : range[j] # "!"
       IN IF k = 1 THEN NoSheetName ELSE [found |-> TRUE, name |-> Slice(range, 1, k - 1)]

\* extractSheetName: the match of /^([^!]+)!/; found = FALSE stands for null.
ExtractSheetName(range) ==
  IF \A i \in 1..Len(range) : range[i] # "!" THEN NoSheetName
  ELSE LET k == CHOOSE i \in 1..Len(range) :
                  range[i] = "!" /\ \A j \in 1..(i - 1) : range[j] # "!"
       IN IF k = 1 THEN NoSheetName ELSE [found |-> TRUE, name |-> Slice(range, 1, k - 1)]

----------------------------------------------------------------------------
(* The cell study: one cell value, one findText, one replaceText *)

CellChars == {"a", "A", "."}
FindChars == {"a", "A", ".", "0"}
ReplaceChars == {"a", "$", "&"}

CellValues ==
  {StringCell(t) : t \in TextsUpTo(CellChars, MaxCellLen)} \cup {NumberZero, Absent}

\* findText is not empty (SmartReplaceParamsSchema: z.string().min(1)).
FindTexts == TextsUpTo(FindChars, MaxFindLen) \ {<<>>}

ReplaceTexts == TextsUpTo(ReplaceChars, MaxReplaceLen)

NoCellOut == [done |-> FALSE, shouldReplace |-> FALSE, newValue |-> <<>>]

\* No call of a pure function is studied.
NoUtilOut == [done |-> FALSE]

IdleUtil ==
  /\ utilIn = [kind |-> "none"]
  /\ utilOut = NoUtilOut

IdleMachine ==
  /\ clock = 0
  /\ requests = <<>>
  /\ maxRequests = 1
  /\ windowMs = 1
  /\ running = 0
  /\ stack = <<>>
  /\ ret = <<>>
  /\ args = <<>>
  /\ calls = <<>>
  /\ sheet = <<>>
  /\ faults = {}
  /\ failures = 0
  /\ admitted = <<>>
  /\ issued = 0
  /\ writes = <<>>

InitCell ==
  /\ IdleMachine
  /\ cellIn \in [cellValue : CellValues, findText : FindTexts,
                 replaceText : ReplaceTexts, matchCase : BOOLEAN,
                 matchEntireCell : BOOLEAN]
  /\ cellOut = NoCellOut
  /\ IdleUtil

\* The body of the column loop of smartReplace for this cell, without the range
\* test and the write.
DecideCell ==
  /\ ~cellOut.done
  /\ LET r == ReplaceCell(cellIn.cellValue, cellIn.findText, cellIn.replaceText,
                          cellIn.matchCase, cellIn.matchEntireCell)
     IN cellOut' = [done |-> TRUE, shouldReplace |-> r.shouldReplace,
                    newValue |-> r.newValue]
  /\ UNCHANGED <<cellIn, utilIn, utilOut, machineVars>>

NextCell == DecideCell

SpecCell == InitCell /\ [][NextCell]_vars

----------------------------------------------------------------------------
(* Claims about the decision for one cell *)

\* Whether text a equals text b under the case rule of smartReplace.
SameText(a, b, matchCase) ==
  IF matchCase THEN a = b ELSE ToLowerCase(a) = ToLowerCase(b)

RECURSIVE LiteralReplaceAll(_, _, _, _, _)
\* text from position i on, with every occurrence of find (scanned left to right,
\* not overlapping) replaced by repl as it stands.
LiteralReplaceAll(text, find, repl, matchCase, i) ==
  IF i > Len(text) THEN <<>>
  ELSE IF /\ i + Len(find) - 1 <= Len(text)
          /\ SameText(Slice(text, i, i + Len(find) - 1), find, matchCase)
       THEN repl \o LiteralReplaceAll(text, find, repl, matchCase, i + Len(find))
       ELSE <<text[i]>> \o LiteralReplaceAll(text, find, repl, matchCase, i + 1)

\* C8: in substring mode the new value of a cell holding a text is that text with
\* every occurrence of findText replaced by replaceText taken literally.
C8_SubstringReplaceIsLiteral ==
  (/\ cellOut.done
   /\ ~cellIn.matchEntireCell
   /\ cellIn.cellValue.kind = "string")
  => cellOut.newValue = LiteralReplaceAll(cellIn.cellValue.text, cellIn.findText,
                                          cellIn.replaceText, cellIn.matchCase, 1)

\* C9: with matchEntireCell a cell is replaced exactly when its whole text equals
\* findText under the case rule, and its new value is then replaceText.
C9_EntireCellIffEqual ==
  (cellOut.done /\ cellIn.matchEntireCell)
  => /\ cellOut.shouldReplace
        <=> (/\ cellIn.cellValue.kind # "absent"
             /\ SameText(cellIn.cellValue.text, cellIn.findText, cellIn.matchCase))
     /\ cellOut.shouldReplace => cellOut.newValue = cellIn.replaceText

----------------------------------------------------------------------------
(* RetryUtil (src/utils/retry-utils.ts) *)

\* Milliseconds in one tick of the clock.
MsPerTick == 10000

DEFAULT_RETRY_CONFIG ==
  [maxRetries |-> 3, baseDelay |-> 1000, maxDelay |-> 10000, backoffMultiplier |-> 2]

RECURSIVE Pow(_, _)
Pow(b, e) == IF e = 0 THEN 1 ELSE b * Pow(b, e - 1)

\* The calculateDelay without the cap.
CalculateDelayUncapped(attempt, config) ==
  config.baseDelay * Pow(config.backoffMultiplier, attempt)

\* calculateDelay, in milliseconds
CalculateDelay(attempt, config) ==
  Min(config.baseDelay * Pow(config.backoffMultiplier, attempt), config.maxDelay)

\* The ticks a setTimeout of ms milliseconds takes at least (a timer fires when
\* the clock has reached its time; it may fire late).
DelayTicks(ms) == (ms + MsPerTick - 1) \div MsPerTick

\* An error value: error.code, error.status || error.statusCode (0 when neither is
\* set), whether the message includes 'quota' or 'rate limit', and whether it is
\* an instance of RetryableError.
ErrorValue(name, code, status, quota, retryable) ==
  [name |-> name, code |-> code, status |-> status, quota |-> quota,
   retryable |-> retryable]

NoError == ErrorValue("none", "", 0, FALSE, FALSE)

\* Errors of the remote API: a 503, a connection reset, a 404, a 429 whose
\* message tells of the exhausted quota, and a plain Error with a message only
\* (new Error('Network error')).
ServerError == ErrorValue("ServerError", "", 503, FALSE, FALSE)
ConnectionReset == ErrorValue("ConnectionReset", "ECONNRESET", 0, FALSE, FALSE)
RemoteNotFound == ErrorValue("RemoteNotFound", "", 404, FALSE, FALSE)
RemoteQuotaError == ErrorValue("RemoteQuotaError", "", 429, TRUE, FALSE)
PlainError == ErrorValue("Error", "", 0, FALSE, FALSE)
RemoteErrors == {ServerError, ConnectionReset, RemoteNotFound, RemoteQuotaError, PlainError}

\* Errors the service raises itself.
SheetNotFoundError == ErrorValue("SheetNotFoundError", "SHEET_NOT_FOUND", 404, FALSE, FALSE)
InvalidRangeFormat == ErrorValue("Error: Invalid range format", "", 0, FALSE, FALSE)

\* error.message?.includes('quota') || error.message?.includes('rate limit'), for
\* a message that ends with the given text after a prefix without these words.
MessageTellsQuota(text) ==
  \/ Includes(text, <<"q", "u", "o", "t", "a">>)
  \/ Includes(text, <<"r", "a", "t", "e", " ", "l", "i", "m", "i", "t">>)

\* The Error parseRange throws for a range it does not accept: `Invalid range
\* format: ${range}` from parseRange itself, `Invalid A1 notation: ${a1}` from
\* a1ToRowCol for the first part that is no address.
ParseRangeThrown(range) ==
  LET parts == Split(range, ":")
      text == IF Len(parts) # 2 \/ parts[1] = <<>> \/ parts[2] = <<>> THEN range
              ELSE IF ~A1ToRowCol(parts[1]).ok THEN parts[1]
              ELSE parts[2]
  IN ErrorValue("Error: Invalid range format", "", 0, MessageTellsQuota(text), FALSE)

\* isRetryableError
IsRetryableError(error) ==
  IF error.code \in {"ECONNRESET", "ENOTFOUND", "ETIMEDOUT"} THEN TRUE
  ELSE IF error.status # 0 THEN error.status >= 500 \/ error.status = 429
  ELSE IF error.quota THEN TRUE
  ELSE error.retryable

\* The catch block with the last-attempt test one attempt early.
RetryDecisionOneShort(attempt, config, error, lastError) ==
  IF attempt + 1 = config.maxRetries THEN [retry |-> FALSE, error |-> lastError]
  ELSE IF ~IsRetryableError(error) THEN [retry |-> FALSE, error |-> error]
  ELSE [retry |-> TRUE, error |-> error]

\* The catch block without the isRetryableError test.
RetryDecisionAlwaysRetry(attempt, config, error, lastError) ==
  IF attempt = config.maxRetries THEN [retry |-> FALSE, error |-> lastError]
  ELSE [retry |-> TRUE, error |-> error]

\* The catch block of executeWithRetry after `lastError = error`: whether the loop
\* goes on to a delay and another attempt, and otherwise the error thrown.
RetryDecision(attempt, config, error, lastError) ==
  IF attempt = config.maxRetries THEN [retry |-> FALSE, error |-> lastError]
  ELSE IF ~IsRetryableError(error) THEN [retry |-> FALSE, error |-> error]
  ELSE [retry |-> TRUE, error |-> error]

----------------------------------------------------------------------------
(* RateLimiter (src/utils/retry-utils.ts) *)

\* The purge that removes only what is older than the window.
PurgeOlderOnly(reqs, now, window) == SelectSeq(reqs, LAMBDA time : now - time <= window)

\* this.requests.filter(time => now - time < this.windowMs)
Purge(reqs, now, window) == SelectSeq(reqs, LAMBDA time : now - time < window)

\* The limit test with > for >=.
AtLimitAbove(reqs, max) == Len(reqs) > max

\* this.requests.length >= this.maxRequests
AtLimit(reqs, max) == Len(reqs) >= max

\* Math.min(...this.requests)
Oldest(reqs) == CHOOSE t \in {reqs[i] : i \in 1..Len(reqs)} :
                  \A i \in 1..Len(reqs) : t <= reqs[i]

\* The wait one tick short.
WaitTimeShort(reqs, now, window) == window - (now - Oldest(reqs)) - 1

\* this.windowMs - (now - oldestRequest)
WaitTime(reqs, now, window) == window - (now - Oldest(reqs))

----------------------------------------------------------------------------
(* The sheet and the calls in progress *)

\* Size of the sheet.
NumRows == 2
NumCols == 2

\* Latest tick, and the most remote calls the store fails in one run.
MaxClock == 5
MaxFailures == 4

Cells == (1..NumRows) \X (1..NumCols)

NoData == [c \in Cells |-> Absent]

\* The sheets of the spreadsheet, by title.
ExistingSheets == {"Sheet1"}

SimpleOps == {"getSpreadsheetInfo", "updateCell"}
InfoOps == {"readData", "deleteSheet"}
ReadOps == {"search", "smartReplace"}

\* One executeWithRetry call in progress: the operation it wraps, where it stands,
\* the locals of executeWithRetry (attempt, lastError), of checkRateLimit (now, the
\* timer) and of smartReplace (data, rowIndex + 1, colIndex + 1, replacements), and
\* what it has done so far (inv: invocations of fn, admissions, errs: the error of
\* each failed invocation, sleeps: backoff delays taken).
NewFrame(op, config, cellRef, value) ==
  [op |-> op, pc |-> "invoke", config |-> config, attempt |-> 0,
   lastError |-> NoError, err |-> NoError, now |-> 0, wake |-> 0,
   inv |-> 0, admissions |-> 0, errs |-> <<>>, sleeps |-> 0,
   cellRef |-> cellRef, value |-> value,
   data |-> NoData, row |-> 1, col |-> 1, replacements |-> <<>>]

\* How an executeWithRetry call ended, with what it had done.
Completion(f, kind, error) ==
  [kind |-> kind, err |-> error, op |-> f.op, inv |-> f.inv, errs |-> f.errs,
   sleeps |-> f.sleeps, maxRetries |-> f.config.maxRetries, data |-> f.data,
   replacements |-> f.replacements]

NotStarted == Completion(NewFrame("none", DEFAULT_RETRY_CONFIG, <<>>, <<>>), "idle", NoError)

Callers == DOMAIN stack

Depth(p) == Len(stack[p])
Top(p) == stack[p][Depth(p)]
At(p, pc) == Depth(p) > 0 /\ Top(p).pc = pc

\* Single-threaded cooperative scheduling: a caller runs when no other caller
\* holds the thread, and holds it until it awaits.
CanRun(p) == running \in {0, p}

SetTop(p, f) == [stack EXCEPT ![p][Depth(p)] = f]

\* The call returns or throws: its frame is popped and the awaiting caller frame,
\* if any, is resumed later.
Return(p, f, kind, error) ==
  /\ ret' = [ret EXCEPT ![p] = Completion(f, kind, error)]
  /\ stack' = [stack EXCEPT ![p] =
                 IF Depth(p) = 1 THEN <<>>
                 ELSE Append(SubSeq(stack[p], 1, Depth(p) - 2),
                             [stack[p][Depth(p) - 1] EXCEPT !.pc = "child_done"])]
  /\ running' = 0

\* A service method is called from inside fn: a new executeWithRetry call starts,
\* synchronously, while the caller frame awaits it.
Call(p, f, child) ==
  /\ stack' = [stack EXCEPT ![p] =
                 Append(SubSeq(stack[p], 1, Depth(p) - 1), [f EXCEPT !.pc = "child_wait"])
                 \o <<child>>]
  /\ running' = p

----------------------------------------------------------------------------
(* Actions.  Every action is one run of a caller between two awaits, or a part
   of one where the code reads the clock or the shared record. *)

\* A caller whose awaited promise has resolved and whose continuation is queued
\* as a microtask: it runs before any timer or response is handled.
MicrotaskPending(p) == Depth(p) > 0 /\ Top(p).pc \in {"admitted", "child_done"}

\* now advances by one tick; timers and responses may take any time.  A run of
\* synchronous code and the microtasks queued behind it take less than a tick.
\* Time is counted from the first call on.
Tick ==
  /\ running = 0
  /\ \E p \in Callers : calls[p] > 0
  /\ \A p \in Callers : ~MicrotaskPending(p)
  /\ clock < MaxClock
  /\ clock' = clock + 1
  /\ UNCHANGED <<requests, maxRequests, windowMs, running, stack, ret, args, calls, sheet,
                 faults, failures, admitted, issued, writes, cellVars>>

\* The caller calls its method.  A service method starts an executeWithRetry
\* call; rateLimiter.checkRateLimit() is called as it stands.
Start(p) ==
  /\ running = 0
  /\ Depth(p) = 0
  /\ calls[p] < args[p].calls
  /\ calls' = [calls EXCEPT ![p] = @ + 1]
  /\ stack' = [stack EXCEPT ![p] =
                 <<[NewFrame(args[p].op, args[p].config, args[p].cellRef, args[p].value)
                      EXCEPT !.pc = IF args[p].op = "checkRateLimit" THEN "rl_now"
                                    ELSE "invoke"]>>]
  /\ ret' = [ret EXCEPT ![p].kind = "running"]
  /\ running' = p
  /\ UNCHANGED <<clock, requests, maxRequests, windowMs, args, sheet, faults, failures,
                 admitted, issued, writes, cellVars>>

\* fn starting with the admission check on the first attempt only.
InvokeUnchecked(p) ==
  /\ CanRun(p)
  /\ At(p, "invoke")
  /\ stack' = SetTop(p, [Top(p) EXCEPT
                           !.pc = IF Top(p).attempt = 0 THEN "rl_now" ELSE "admitted",
                           !.inv = @ + 1])
  /\ running' = IF Top(p).attempt = 0 THEN p ELSE 0
  /\ UNCHANGED <<clock, requests, maxRequests, windowMs, ret, args, calls, sheet, faults, failures,
                 admitted, issued, writes, cellVars>>

\* for (attempt ...) { try { return await fn(); ...: fn starts, and its first
\* statement is `await this.rateLimiter.checkRateLimit()`.
Invoke(p) ==
  /\ CanRun(p)
  /\ At(p, "invoke")
  /\ stack' = SetTop(p, [Top(p) EXCEPT !.pc = "rl_now", !.inv = @ + 1])
  /\ running' = p
  /\ UNCHANGED <<clock, requests, maxRequests, windowMs, ret, args, calls, sheet, faults, failures,
                 admitted, issued, writes, cellVars>>

\* checkRateLimit: const now = Date.now()
RlNow(p) ==
  /\ CanRun(p)
  /\ At(p, "rl_now")
  /\ stack' = SetTop(p, [Top(p) EXCEPT !.pc = "rl_filter", !.now = clock])
  /\ running' = p
  /\ UNCHANGED <<clock, requests, maxRequests, windowMs, ret, args, calls, sheet, faults, failures,
                 admitted, issued, writes, cellVars>>

\* checkRateLimit: this.requests = this.requests.filter(...)
RlFilter(p) ==
  /\ CanRun(p)
  /\ At(p, "rl_filter")
  /\ requests' = Purge(requests, Top(p).now, windowMs)
  /\ stack' = SetTop(p, [Top(p) EXCEPT !.pc = "rl_test"])
  /\ running' = p
  /\ UNCHANGED <<clock, maxRequests, windowMs, ret, args, calls, sheet, faults, failures,
                 admitted, issued, writes, cellVars>>

\* The limit test followed by an await before the record, as a check that reads
\* the record asynchronously would make it.
RlTestYielding(p) ==
  /\ CanRun(p)
  /\ At(p, "rl_test")
  /\ IF AtLimit(requests, maxRequests) /\ WaitTime(requests, Top(p).now, windowMs) > 0
     THEN stack' = SetTop(p, [Top(p) EXCEPT
                        !.pc = "rl_sleep",
                        !.wake = clock + WaitTime(requests, Top(p).now, windowMs)])
     ELSE stack' = SetTop(p, [Top(p) EXCEPT !.pc = "rl_push"])
  /\ running' = 0
  /\ UNCHANGED <<clock, requests, maxRequests, windowMs, ret, args, calls, sheet, faults, failures,
                 admitted, issued, writes, cellVars>>

\* checkRateLimit: the limit test; at the limit with waitTime > 0 the caller
\* sleeps (await this.sleep(waitTime)), otherwise it goes on to record.
RlTest(p) ==
  /\ CanRun(p)
  /\ At(p, "rl_test")
  /\ IF AtLimit(requests, maxRequests) /\ WaitTime(requests, Top(p).now, windowMs) > 0
     THEN /\ stack' = SetTop(p, [Top(p) EXCEPT
                        !.pc = "rl_sleep",
                        !.wake = clock + WaitTime(requests, Top(p).now, windowMs)])
          /\ running' = 0
     ELSE /\ stack' = SetTop(p, [Top(p) EXCEPT !.pc = "rl_push"])
          /\ running' = p
  /\ UNCHANGED <<clock, requests, maxRequests, windowMs, ret, args, calls, sheet, faults, failures,
                 admitted, issued, writes, cellVars>>

\* The wake-up that records a timestamp of its own before the check runs again.
RlWakeRecording(p) ==
  /\ running = 0
  /\ At(p, "rl_sleep")
  /\ clock >= Top(p).wake
  /\ requests' = Append(requests, clock)
  /\ admitted' = Append(admitted, clock)
  /\ stack' = SetTop(p, [Top(p) EXCEPT !.pc = "rl_now"])
  /\ running' = p
  /\ UNCHANGED <<clock, maxRequests, windowMs, ret, args, calls, sheet, faults, failures,
                 issued, writes, cellVars>>

\* The timer of sleep(waitTime) fires and the check is not resumed.
RlWakeNever(p) ==
  /\ running = 0
  /\ At(p, "rl_sleep")
  /\ clock >= Top(p).wake
  /\ UNCHANGED vars

\* The timer of sleep(waitTime) fires: return this.checkRateLimit()
RlWake(p) ==
  /\ running = 0
  /\ At(p, "rl_sleep")
  /\ clock >= Top(p).wake
  /\ stack' = SetTop(p, [Top(p) EXCEPT !.pc = "rl_now"])
  /\ running' = p
  /\ UNCHANGED <<clock, requests, maxRequests, windowMs, ret, args, calls, sheet, faults, failures,
                 admitted, issued, writes, cellVars>>

\* checkRateLimit: this.requests.push(now); the promise resolves and fn, which
\* awaits it, is resumed later.
RlPush(p) ==
  /\ CanRun(p)
  /\ At(p, "rl_push")
  /\ requests' = Append(requests, Top(p).now)
  /\ admitted' = Append(admitted, Top(p).now)
  /\ stack' = SetTop(p, [Top(p) EXCEPT !.pc = "admitted", !.admissions = @ + 1])
  /\ running' = 0
  /\ UNCHANGED <<clock, maxRequests, windowMs, ret, args, calls, sheet, faults, failures,
                 issued, writes, cellVars>>

\* The caller that awaited checkRateLimit() itself is resumed: the call is over.
CheckReturns(p) ==
  /\ CanRun(p)
  /\ At(p, "admitted")
  /\ Top(p).op = "checkRateLimit"
  /\ Return(p, Top(p), "ok", NoError)
  /\ UNCHANGED <<clock, requests, maxRequests, windowMs, args, calls, sheet, faults, failures,
                 admitted, issued, writes, cellVars>>

\* fn of getSpreadsheetInfo, updateCell: the API call is sent and awaited.
RemoteIssue(p) ==
  /\ CanRun(p)
  /\ At(p, "admitted")
  /\ Top(p).op \in SimpleOps
  /\ issued' = issued + 1
  /\ stack' = SetTop(p, [Top(p) EXCEPT !.pc = "remote_wait"])
  /\ running' = 0
  /\ UNCHANGED <<clock, requests, maxRequests, windowMs, ret, args, calls, sheet, faults, failures,
                 admitted, writes, cellVars>>

\* fn calling a child method that makes its API call with no retry of its own.
CallChildOnce(p) ==
  /\ CanRun(p)
  /\ At(p, "admitted")
  /\ Top(p).op \in InfoOps \cup ReadOps
  /\ Call(p, Top(p),
          NewFrame(IF Top(p).op \in InfoOps THEN "getSpreadsheetInfo" ELSE "readData",
                   [DEFAULT_RETRY_CONFIG EXCEPT !.maxRetries = 0], <<>>, <<>>))
  /\ UNCHANGED <<clock, requests, maxRequests, windowMs, ret, args, calls, sheet, faults, failures,
                 admitted, issued, writes, cellVars>>

\* fn of readData, deleteSheet calls getSpreadsheetInfo; fn of search, smartReplace
\* calls readData.
CallChild(p) ==
  /\ CanRun(p)
  /\ At(p, "admitted")
  /\ Top(p).op \in InfoOps \cup ReadOps
  /\ Call(p, Top(p),
          NewFrame(IF Top(p).op \in InfoOps THEN "getSpreadsheetInfo" ELSE "readData",
                   DEFAULT_RETRY_CONFIG, <<>>, <<>>))
  /\ UNCHANGED <<clock, requests, maxRequests, windowMs, ret, args, calls, sheet, faults, failures,
                 admitted, issued, writes, cellVars>>

\* fn catching the error of the awaited method and throwing one of its own.
ChildFailedWrapped(p) ==
  /\ CanRun(p)
  /\ At(p, "child_done")
  /\ ret[p].kind = "err"
  /\ stack' = SetTop(p, [Top(p) EXCEPT !.pc = "catch", !.err = InvalidRangeFormat])
  /\ running' = p
  /\ UNCHANGED <<clock, requests, maxRequests, windowMs, ret, args, calls, sheet, faults, failures,
                 admitted, issued, writes, cellVars>>

\* smartReplace swallowing the error of an awaited updateCell and going on with
\* the next cell.
ChildFailedIgnored(p) ==
  /\ CanRun(p)
  /\ At(p, "child_done")
  /\ ret[p].kind = "err"
  /\ IF Top(p).op = "smartReplace" /\ ret[p].op = "updateCell"
     THEN stack' = SetTop(p, [Top(p) EXCEPT !.pc = "scan", !.col = @ + 1])
     ELSE stack' = SetTop(p, [Top(p) EXCEPT !.pc = "catch", !.err = ret[p].err])
  /\ running' = p
  /\ UNCHANGED <<clock, requests, maxRequests, windowMs, ret, args, calls, sheet, faults, failures,
                 admitted, issued, writes, cellVars>>

\* The awaited service method threw: fn throws the same error.
ChildFailed(p) ==
  /\ CanRun(p)
  /\ At(p, "child_done")
  /\ ret[p].kind = "err"
  /\ stack' = SetTop(p, [Top(p) EXCEPT !.pc = "catch", !.err = ret[p].err])
  /\ running' = p
  /\ UNCHANGED <<clock, requests, maxRequests, windowMs, ret, args, calls, sheet, faults, failures,
                 admitted, issued, writes, cellVars>>

\* readData, deleteSheet: the sheet is looked up in the metadata; if it is there
\* the API call is sent and awaited, otherwise SheetNotFoundError is thrown.
InfoReturned(p) ==
  /\ CanRun(p)
  /\ At(p, "child_done")
  /\ ret[p].kind = "ok"
  /\ Top(p).op \in InfoOps
  /\ IF args[p].sheetName \in ExistingSheets
     THEN /\ issued' = issued + 1
          /\ stack' = SetTop(p, [Top(p) EXCEPT !.pc = "remote_wait"])
          /\ running' = 0
     ELSE /\ stack' = SetTop(p, [Top(p) EXCEPT !.pc = "catch", !.err = SheetNotFoundError])
          /\ running' = p
          /\ UNCHANGED issued
  /\ UNCHANGED <<clock, requests, maxRequests, windowMs, ret, args, calls, sheet, faults, failures,
                 admitted, writes, cellVars>>

\* search, smartReplace: readData returned the values.  search scans them and
\* returns; smartReplace starts its scan at the first cell.
ReadReturned(p) ==
  /\ CanRun(p)
  /\ At(p, "child_done")
  /\ ret[p].kind = "ok"
  /\ ret[p].op = "readData"
  /\ Top(p).op \in ReadOps
  /\ IF Top(p).op = "search"
     THEN /\ Return(p, [Top(p) EXCEPT !.data = ret[p].data], "ok", NoError)
     ELSE /\ stack' = SetTop(p, [Top(p) EXCEPT !.pc = "scan", !.data = ret[p].data,
                                               !.row = 1, !.col = 1,
                                               !.replacements = <<>>])
          /\ running' = p
          /\ UNCHANGED ret
  /\ UNCHANGED <<clock, requests, maxRequests, windowMs, args, calls, sheet, faults, failures,
                 admitted, issued, writes, cellVars>>

\* smartReplace: `await this.updateCell(...)` returned; the column loop goes on.
WriteReturned(p) ==
  /\ CanRun(p)
  /\ At(p, "child_done")
  /\ ret[p].kind = "ok"
  /\ ret[p].op = "updateCell"
  /\ Top(p).op = "smartReplace"
  /\ stack' = SetTop(p, [Top(p) EXCEPT !.pc = "scan", !.col = @ + 1])
  /\ running' = p
  /\ UNCHANGED <<clock, requests, maxRequests, windowMs, ret, args, calls, sheet, faults, failures,
                 admitted, issued, writes, cellVars>>

\* The range test on rows only.
OutsideRows(row, col, parsedRange) ==
  row < parsedRange.startRow \/ row > parsedRange.endRow

\* The range test of smartReplace (lines 347-348).
OutsideRange(row, col, parsedRange) ==
  \/ row < parsedRange.startRow \/ row > parsedRange.endRow
  \/ col < parsedRange.startCol \/ col > parsedRange.endCol

\* smartReplace: one step of the row and column loops (lines 332-382).
Scan(p) ==
  /\ CanRun(p)
  /\ At(p, "scan")
  /\ LET f == Top(p)
         a == args[p]
         cellValue == f.data[<<f.row, f.col>>]
         r == ReplaceCell(cellValue, a.findText, a.replaceText, a.matchCase,
                          a.matchEntireCell)
         cellRef == RowColToA1(f.row, f.col)
     IN IF f.row > NumRows
        THEN Return(p, f, "ok", NoError)
        ELSE /\ UNCHANGED ret
             /\ IF f.col > NumCols
                THEN /\ stack' = SetTop(p, [f EXCEPT !.row = @ + 1, !.col = 1])
                     /\ running' = p
                ELSE IF ~Truthy(cellValue)
                THEN /\ stack' = SetTop(p, [f EXCEPT !.col = @ + 1])
                     /\ running' = p
                ELSE IF a.range # <<>> /\ ~ParseRange(a.range).ok
                THEN /\ stack' = SetTop(p, [f EXCEPT !.pc = "catch",
                                                     !.err = ParseRangeThrown(a.range)])
                     /\ running' = p
                ELSE IF a.range # <<>> /\ OutsideRange(f.row, f.col, ParseRange(a.range))
                THEN /\ stack' = SetTop(p, [f EXCEPT !.col = @ + 1])
                     /\ running' = p
                ELSE IF r.shouldReplace
                THEN Call(p, [f EXCEPT !.replacements =
                                Append(@, [cell |-> cellRef,
                                           originalValue |-> cellValue.text,
                                           newValue |-> r.newValue])],
                          NewFrame("updateCell", DEFAULT_RETRY_CONFIG, cellRef, r.newValue))
                ELSE /\ stack' = SetTop(p, [f EXCEPT !.col = @ + 1])
                     /\ running' = p
  /\ UNCHANGED <<clock, requests, maxRequests, windowMs, args, calls, sheet, faults, failures,
                 admitted, issued, writes, cellVars>>

\* The cell of the sheet a range text of updateCell names.
CellOf(cellRef) == LET a == A1ToRowCol(cellRef) IN <<a.row, a.col>>

\* The API call succeeds and, with retries left, the loop delays and goes round
\* again instead of returning.
RemoteSucceedsThenDelay(p) ==
  /\ CanRun(p)
  /\ At(p, "remote_wait")
  /\ LET f == Top(p) IN
       IF f.attempt < f.config.maxRetries
       THEN /\ stack' = SetTop(p, [f EXCEPT !.pc = "backoff", !.sleeps = @ + 1,
                                            !.wake = clock + 1])
            /\ running' = 0
            /\ UNCHANGED <<ret, sheet, writes>>
       ELSE /\ UNCHANGED <<sheet, writes>>
            /\ Return(p, f, "ok", NoError)
  /\ UNCHANGED <<clock, requests, maxRequests, windowMs, args, calls, faults, failures,
                 admitted, issued, cellVars>>

\* The API call succeeds.  values.update stores the value; values.get returns the
\* values of the sheet.
RemoteSucceeds(p) ==
  /\ CanRun(p)
  /\ At(p, "remote_wait")
  /\ LET f == Top(p) IN
       /\ IF f.op = "updateCell"
          THEN /\ sheet' = [sheet EXCEPT ![CellOf(f.cellRef)] = StringCell(f.value)]
               /\ writes' = Append(writes, [caller |-> p, cellRef |-> f.cellRef,
                                            value |-> f.value])
          ELSE UNCHANGED <<sheet, writes>>
       /\ Return(p, IF f.op = "readData" THEN [f EXCEPT !.data = sheet] ELSE f,
                 "ok", NoError)
  /\ UNCHANGED <<clock, requests, maxRequests, windowMs, args, calls, faults, failures,
                 admitted, issued, cellVars>>

\* The API call fails: the awaited promise rejects, and fn throws the error.
RemoteFails(p) ==
  /\ CanRun(p)
  /\ At(p, "remote_wait")
  /\ failures < MaxFailures
  /\ \E e \in faults :
       stack' = SetTop(p, [Top(p) EXCEPT !.pc = "catch", !.err = e])
  /\ failures' = failures + 1
  /\ running' = p
  /\ UNCHANGED <<clock, requests, maxRequests, windowMs, ret, args, calls, sheet, faults,
                 admitted, issued, writes, cellVars>>

\* executeWithRetry: the catch block (lines 40-59) and, after the loop, line 62.
Catch(p) ==
  /\ CanRun(p)
  /\ At(p, "catch")
  /\ LET f == [Top(p) EXCEPT !.lastError = Top(p).err, !.errs = Append(@, Top(p).err)]
         d == RetryDecision(f.attempt, f.config, f.err, f.lastError)
     IN IF d.retry
        THEN /\ stack' = SetTop(p, [f EXCEPT
                           !.pc = "backoff",
                           !.sleeps = @ + 1,
                           !.wake = clock + DelayTicks(CalculateDelay(f.attempt, f.config))])
             /\ running' = 0
             /\ UNCHANGED ret
        ELSE Return(p, f, "err", d.error)
  /\ UNCHANGED <<clock, requests, maxRequests, windowMs, args, calls, sheet, faults, failures,
                 admitted, issued, writes, cellVars>>

\* The loop going round again before the timer of sleep(delay) has fired.
BackoffWakeEarly(p) ==
  /\ running = 0
  /\ At(p, "backoff")
  /\ stack' = SetTop(p, [Top(p) EXCEPT !.pc = "invoke", !.attempt = @ + 1])
  /\ running' = p
  /\ UNCHANGED <<clock, requests, maxRequests, windowMs, ret, args, calls, sheet, faults, failures,
                 admitted, issued, writes, cellVars>>

\* The timer of sleep(delay) fires: attempt++ and the loop body runs again.
BackoffWake(p) ==
  /\ running = 0
  /\ At(p, "backoff")
  /\ clock >= Top(p).wake
  /\ stack' = SetTop(p, [Top(p) EXCEPT !.pc = "invoke", !.attempt = @ + 1])
  /\ running' = p
  /\ UNCHANGED <<clock, requests, maxRequests, windowMs, ret, args, calls, sheet, faults, failures,
                 admitted, issued, writes, cellVars>>

----------------------------------------------------------------------------
(* Specifications *)

\* Callers sharing the limiter, the calls each makes, the largest limiter, the
\* largest maxRetries passed.
NumCallers == 2
MaxCalls == 2
MaxMaxRequests == 2
MaxWindow == 2
MaxRetries == 2

IdleCell ==
  /\ cellIn = [cellValue |-> Absent, findText |-> <<"a">>, replaceText |-> <<>>,
               matchCase |-> FALSE, matchEntireCell |-> FALSE]
  /\ cellOut = NoCellOut
  /\ IdleUtil

\* The arguments of one call of a service method.
Arguments(op, config, sheetName, findText, replaceText, range, matchCase, matchEntireCell, cellRef, value) ==
  [op |-> op, calls |-> 1, config |-> config, sheetName |-> sheetName, findText |-> findText,
   replaceText |-> replaceText, range |-> range, matchCase |-> matchCase,
   matchEntireCell |-> matchEntireCell, cellRef |-> cellRef, value |-> value]

\* The sheet, of any size: "a" in the first cell, an empty cell at the start of
\* the last row, "b" in the last cell and "Aa" elsewhere.
ServiceSheet ==
  [c \in Cells |-> IF c = <<1, 1>> THEN StringCell(<<"a">>)
                   ELSE IF c = <<NumRows, 1>> THEN Absent
                   ELSE IF c = <<NumRows, NumCols>> THEN StringCell(<<"b">>)
                   ELSE StringCell(<<"A", "a">>)]

\* rateLimiter.checkRateLimit(), called MaxCalls times in a row.
LimiterArguments ==
  {[Arguments("checkRateLimit", DEFAULT_RETRY_CONFIG, "Sheet1", <<"a">>, <<>>, <<>>,
              FALSE, FALSE, <<>>, <<>>) EXCEPT !.calls = MaxCalls]}

\* RetryUtil.executeWithRetry(fn, {maxRetries}) around a rate-limited API call, as
\* getSpreadsheetInfo makes it, for every maxRetries up to MaxRetries.
RetryArguments ==
  {Arguments("getSpreadsheetInfo", [DEFAULT_RETRY_CONFIG EXCEPT !.maxRetries = m],
             "Sheet1", <<"a">>, <<>>, <<>>, FALSE, FALSE, <<>>, <<>>) :
     m \in 0..MaxRetries}

InitMachine(callers, argumentSets, sheets, limits, windows, errors) ==
  /\ clock = 0
  /\ requests = <<>>
  /\ maxRequests \in limits
  /\ windowMs \in windows
  /\ faults = errors
  /\ running = 0
  /\ stack = [p \in callers |-> <<>>]
  /\ ret = [p \in callers |-> NotStarted]
  /\ args \in [callers -> argumentSets]
  /\ calls = [p \in callers |-> 0]
  /\ sheet \in sheets
  /\ failures = 0
  /\ admitted = <<>>
  /\ issued = 0
  /\ writes = <<>>
  /\ IdleCell

\* Concurrent callers of checkRateLimit that share one RateLimiter.
Init ==
  InitMachine(1..NumCallers, LimiterArguments, {ServiceSheet}, 1..MaxMaxRequests,
              {MaxWindow}, {})

Next ==
  \/ Tick
  \/ \E p \in Callers : Start(p)
  \/ \E p \in Callers : RlNow(p)
  \/ \E p \in Callers : RlFilter(p)
  \/ \E p \in Callers : RlTest(p)
  \/ \E p \in Callers : RlWake(p)
  \/ \E p \in Callers : RlPush(p)
  \/ \E p \in Callers : CheckReturns(p)

Spec == Init /\ [][Next]_vars

\* One caller of executeWithRetry around a rate-limited API call.
InitRetry ==
  InitMachine({1}, RetryArguments, {ServiceSheet}, 1..MaxMaxRequests, 1..MaxWindow,
              RemoteErrors)

NextRetry ==
  \/ Tick
  \/ \E p \in Callers : Start(p)
  \/ \E p \in Callers : Invoke(p)
  \/ \E p \in Callers : RlNow(p)
  \/ \E p \in Callers : RlFilter(p)
  \/ \E p \in Callers : RlTest(p)
  \/ \E p \in Callers : RlWake(p)
  \/ \E p \in Callers : RlPush(p)
  \/ \E p \in Callers : RemoteIssue(p)
  \/ \E p \in Callers : RemoteSucceeds(p)
  \/ \E p \in Callers : RemoteFails(p)
  \/ \E p \in Callers : Catch(p)
  \/ \E p \in Callers : BackoffWake(p)

SpecRetry == InitRetry /\ [][NextRetry]_vars

\* The texts of the range argument: none, the first column, the second row,
\* a reversed range and a malformed one.
ServiceRanges ==
  {<<>>, <<"A", "1", ":", "A", "2">>, <<"A", "2", ":", "B", "2">>,
   <<"B", "2", ":", "A", "1">>, <<"A", "1">>}

\* smartReplace of "a": by "b" over every range, by "aa" over the whole sheet, and
\* in whole-cell mode over the whole sheet.
SmartReplaceArguments ==
  {Arguments("smartReplace", DEFAULT_RETRY_CONFIG, "Sheet1", <<"a">>, <<"b">>,
             range, FALSE, FALSE, <<>>, <<>>) : range \in ServiceRanges}
  \cup
  {Arguments("smartReplace", DEFAULT_RETRY_CONFIG, "Sheet1", <<"a">>, <<"a", "a">>,
             <<>>, FALSE, FALSE, <<>>, <<>>)}
  \cup
  {Arguments("smartReplace", DEFAULT_RETRY_CONFIG, "Sheet1", <<"a">>, <<"b">>,
             <<>>, matchCase, TRUE, <<>>, <<>>) : matchCase \in BOOLEAN}

OtherArguments ==
  {Arguments(op, DEFAULT_RETRY_CONFIG, sheetName, <<"a">>, <<>>, <<>>, FALSE, FALSE,
             <<"B", "1">>, <<"b">>) :
     op \in SimpleOps \cup InfoOps \cup {"search"}, sheetName \in {"Sheet1", "Sheet2"}}

ServiceFaults == {ServerError, RemoteNotFound}

\* new RateLimiter(...) of the service, scaled down: ServiceMaxRequests calls per
\* window of ServiceWindow ticks.
ServiceMaxRequests == 4
ServiceWindow == 1

\* One caller running any method of GoogleSheetsService.
InitService ==
  InitMachine({1}, SmartReplaceArguments \cup OtherArguments, {ServiceSheet},
              {ServiceMaxRequests}, {ServiceWindow}, ServiceFaults)

NextService ==
  \/ Tick
  \/ \E p \in Callers : Start(p)
  \/ \E p \in Callers : Invoke(p)
  \/ \E p \in Callers : RlNow(p)
  \/ \E p \in Callers : RlFilter(p)
  \/ \E p \in Callers : RlTest(p)
  \/ \E p \in Callers : RlWake(p)
  \/ \E p \in Callers : RlPush(p)
  \/ \E p \in Callers : RemoteIssue(p)
  \/ \E p \in Callers : CallChild(p)
  \/ \E p \in Callers : ChildFailed(p)
  \/ \E p \in Callers : InfoReturned(p)
  \/ \E p \in Callers : ReadReturned(p)
  \/ \E p \in Callers : WriteReturned(p)
  \/ \E p \in Callers : Scan(p)
  \/ \E p \in Callers : RemoteSucceeds(p)
  \/ \E p \in Callers : RemoteFails(p)
  \/ \E p \in Callers : Catch(p)
  \/ \E p \in Callers : BackoffWake(p)

SpecService == InitService /\ [][NextService]_vars

\* One caller whose call fails for good: smartReplace over a range that is no
\* range ("A1", "quota") or over the first row, readData and deleteSheet of a
\* sheet that may not exist.
InitFatal ==
  InitMachine({1},
              {Arguments("smartReplace", DEFAULT_RETRY_CONFIG, "Sheet1", <<"a">>, <<"b">>,
                         range, FALSE, FALSE, <<>>, <<>>) :
                 range \in {<<"A", "1">>, <<"q", "u", "o", "t", "a">>,
                            <<"A", "1", ":", "B", "1">>}}
              \cup
              {Arguments(op, DEFAULT_RETRY_CONFIG, sheetName, <<"a">>, <<>>, <<>>, FALSE,
                         FALSE, <<>>, <<>>) :
                 op \in InfoOps, sheetName \in {"Sheet1", "Sheet2"}},
              {ServiceSheet}, {ServiceMaxRequests}, {ServiceWindow}, {ServerError})

SpecFatal == InitFatal /\ [][NextService]_vars

----------------------------------------------------------------------------
(* Claims about RateLimiter (Spec) *)

\* The admissions recorded in the window (t - windowMs, t].
AdmissionsIn(t) ==
  {i \in DOMAIN admitted : admitted[i] > t - windowMs /\ admitted[i] <= t}

\* C1: at every time t, at most maxRequests admissions fall in the rolling window
\* (t - windowMs, t].
C1_WindowInvariant ==
  \A t \in 0..MaxClock : Cardinality(AdmissionsIn(t)) <= maxRequests

\* More calls were admitted than one window takes, a caller had to sleep for it,
\* and some window is full.
C1_Witness ==
  /\ Len(admitted) > maxRequests
  /\ \E t \in 0..MaxClock : Cardinality(AdmissionsIn(t)) = maxRequests
  /\ \E p \in Callers : Depth(p) > 0 /\ Top(p).wake > 0 /\ Top(p).pc = "admitted"

\* The caller is between the purge and the record of a check.
InCheck(p) == Depth(p) > 0 /\ Top(p).pc \in {"rl_filter", "rl_test", "rl_push"}

\* C5: the checks of concurrent callers are serialized: while a caller is between
\* the purge and the record of its check it holds the thread and no other caller
\* is inside a check, so the record never holds more than maxRequests live
\* timestamps and no window that ends at an admission holds more than maxRequests.
C5_ChecksSerialized ==
  /\ \A p \in Callers : InCheck(p) => running = p
  /\ \A p, q \in Callers : (InCheck(p) /\ InCheck(q)) => p = q
  /\ Len(requests) <= maxRequests
  /\ \A i \in DOMAIN admitted : Cardinality(AdmissionsIn(admitted[i])) <= maxRequests

\* Two waiters due at the same instant: one is inside its check after waking, the
\* other's timer has fired too and it waits for the thread.
C5_Witness ==
  \E p, q \in Callers :
    /\ p # q
    /\ InCheck(p) /\ Top(p).wake > 0 /\ Top(p).now >= Top(p).wake
    /\ At(q, "rl_sleep") /\ Top(q).wake = Top(p).wake /\ clock >= Top(q).wake

----------------------------------------------------------------------------
(* Claims about executeWithRetry (SpecRetry) *)

AllRetryable(errs) == \A i \in DOMAIN errs : IsRetryableError(errs[i])

Ended(p) == Depth(p) = 0 /\ ret[p].kind \in {"ok", "err"}

\* C2: the operation is invoked at least once and at most maxRetries + 1 times;
\* when every invocation failed with a retryable error it was invoked exactly
\* maxRetries + 1 times and the call rejects with the error of the last one.
C2_InvocationBounds ==
  \A p \in Callers :
    /\ \A k \in 1..Depth(p) : stack[p][k].inv <= stack[p][k].config.maxRetries + 1
    /\ Ended(p) =>
         /\ ret[p].inv >= 1
         /\ ret[p].inv <= ret[p].maxRetries + 1
         /\ (Len(ret[p].errs) = ret[p].inv /\ AllRetryable(ret[p].errs)) =>
              /\ ret[p].inv = ret[p].maxRetries + 1
              /\ ret[p].kind = "err"
              /\ ret[p].err = ret[p].errs[Len(ret[p].errs)]

\* maxRetries = 2 and three retryable failures, not all the same: the call
\* rejected with the third.
C2_Witness ==
  \E p \in Callers :
    /\ Ended(p) /\ ret[p].kind = "err"
    /\ ret[p].maxRetries = 2 /\ ret[p].inv = 3
    /\ AllRetryable(ret[p].errs)
    /\ ret[p].errs[1] # ret[p].errs[3]
    /\ ret[p].err = ret[p].errs[3]

\* C3: an invocation that fails with a non-retryable error is the last one: the
\* call rejects with that error, no delay is taken after it, and when it is the
\* first failure the operation was invoked exactly once.
C3_NonRetryablePropagates ==
  \A p \in Callers :
    /\ \A k \in 1..Depth(p) :
         /\ AllRetryable(stack[p][k].errs)
         /\ stack[p][k].sleeps = Len(stack[p][k].errs)
         /\ stack[p][k].pc = "backoff" => IsRetryableError(stack[p][k].lastError)
    /\ Ended(p) =>
         \A i \in DOMAIN ret[p].errs :
           ~IsRetryableError(ret[p].errs[i]) =>
             /\ i = Len(ret[p].errs)
             /\ ret[p].inv = i
             /\ ret[p].sleeps = i - 1
             /\ ret[p].kind = "err"
             /\ ret[p].err = ret[p].errs[i]

\* With retries left, the first invocation failed with a 404: the call rejected
\* after one invocation and no delay.
C3_Witness ==
  \E p \in Callers :
    /\ Ended(p) /\ ret[p].kind = "err"
    /\ ret[p].maxRetries >= 1
    /\ ret[p].inv = 1 /\ ret[p].sleeps = 0
    /\ ret[p].err = RemoteNotFound

----------------------------------------------------------------------------
(* Claims about GoogleSheetsService (SpecService) *)

\* C4: in every attempt of every method the admission check has completed before
\* the method goes on to its API call, every retry makes its own check, and the
\* API calls issued never outnumber the admissions recorded.
C4_AdmissionBeforeCall ==
  /\ issued <= Len(admitted)
  /\ \A p \in Callers : \A k \in 1..Depth(p) :
       LET f == stack[p][k] IN
         /\ f.inv = f.attempt + 1 \/ (f.pc = "invoke" /\ f.inv = f.attempt)
         /\ IF f.pc \in {"rl_now", "rl_filter", "rl_test", "rl_sleep", "rl_push"}
            THEN f.admissions = f.inv - 1
            ELSE f.admissions = f.inv

\* A retry of a nested method waits for its API call after its own admission.
C4_Witness ==
  \E p \in Callers :
    /\ Depth(p) >= 2
    /\ At(p, "remote_wait")
    /\ Top(p).attempt >= 1
    /\ Top(p).admissions = Top(p).attempt + 1
    /\ issued >= 2

\* The cells of the sheet in row-major order.
RowMajorBefore(c, d) == c[1] < d[1] \/ (c[1] = d[1] /\ c[2] < d[2])

\* C6: in one smartReplace call every modified cell is written once, the writes
\* come in row-major order, and they are the replacements returned.
C6_OneWritePerModifiedCell ==
  \A p \in Callers :
    args[p].op = "smartReplace" =>
      /\ \A i, j \in DOMAIN writes :
           i < j => RowMajorBefore(CellOf(writes[i].cellRef), CellOf(writes[j].cellRef))
      /\ (Ended(p) /\ ret[p].kind = "ok") =>
           [i \in DOMAIN writes |-> writes[i].cellRef]
             = [i \in DOMAIN ret[p].replacements |-> ret[p].replacements[i].cell]

\* Whether a cell value matches findText under the options of the call.
CellMatches(cell, a) ==
  /\ cell.kind # "absent"
  /\ IF a.matchEntireCell THEN SameText(cell.text, a.findText, a.matchCase)
     ELSE \E i \in 1..Len(cell.text) :
            /\ i + Len(a.findText) - 1 <= Len(cell.text)
            /\ SameText(Slice(cell.text, i, i + Len(a.findText) - 1), a.findText,
                        a.matchCase)

InsideRange(c, a) ==
  \/ a.range = <<>>
  \/ /\ ParseRange(a.range).ok
     /\ c[1] >= ParseRange(a.range).startRow /\ c[1] <= ParseRange(a.range).endRow
     /\ c[2] >= ParseRange(a.range).startCol /\ c[2] <= ParseRange(a.range).endCol

C10_WritesOnlyMatchedInRange ==
  [][\A p \in Callers :
       (args[p].op = "smartReplace" /\ (writes' # writes \/ sheet' # sheet))
       => /\ Len(writes') = Len(writes) + 1
          /\ LET c == CellOf(writes'[Len(writes')].cellRef) IN
               /\ CellMatches(sheet[c], args[p])
               /\ InsideRange(c, args[p])
               /\ \A d \in Cells \ {c} : sheet'[d] = sheet[d]]_vars

\* A smartReplace over a range returned after writing, and a cell outside the
\* range that matches has kept its value.
C10_Witness ==
  \E p \in Callers :
    /\ Ended(p) /\ ret[p].kind = "ok" /\ ret[p].op = "smartReplace"
    /\ args[p].range # <<>>
    /\ Len(writes) >= 1
    /\ \E d \in Cells :
         /\ ~InsideRange(d, args[p])
         /\ CellMatches(sheet[d], args[p])
         /\ \A i \in DOMAIN writes : CellOf(writes[i].cellRef) # d

----------------------------------------------------------------------------
(* GoogleSheetsService.search, the scan of the values read (lines 201-231) *)

BooleanFalse == [kind |-> "boolean", text |-> <<"f", "a", "l", "s", "e">>]

\* SheetsUtils.rowColToA1(1, colIndex + 1).replace(/[0-9]/g, '')
ColumnLetter(column) == SelectSeq(RowColToA1(1, column), LAMBDA ch : ~IsDigit(ch))

\* searchColumns.includes(columnLetter)
ColumnListed(columns, letter) == \E i \in DOMAIN columns : columns[i] = letter

\* The test of line 219: cellValue && String(cellValue).toLowerCase().includes(...)
SearchHit(cellValue, searchText) ==
  Truthy(cellValue) /\ Includes(ToLowerCase(cellValue.text), ToLowerCase(searchText))

RECURSIVE SearchRow(_, _, _, _, _)
\* The column loop of search over one row, from column `column` on.
SearchRow(row, rowNumber, column, searchText, searchColumns) ==
  IF column > Len(row) THEN <<>>
  ELSE LET rest == SearchRow(row, rowNumber, column + 1, searchText, searchColumns)
           cellValue == row[column]
       IN IF /\ searchColumns.given
             /\ Len(searchColumns.columns) > 0
             /\ ~ColumnListed(searchColumns.columns, ColumnLetter(column))
          THEN rest
          ELSE IF SearchHit(cellValue, searchText)
          THEN <<[cell |-> RowColToA1(rowNumber, column), value |-> cellValue,
                  row |-> rowNumber, column |-> column]>> \o rest
          ELSE rest

RECURSIVE SearchRows(_, _, _, _)
\* The row loop of search, from row `rowNumber` on.
SearchRows(data, rowNumber, searchText, searchColumns) ==
  IF rowNumber > Len(data) THEN <<>>
  ELSE SearchRow(data[rowNumber], rowNumber, 1, searchText, searchColumns)
       \o SearchRows(data, rowNumber + 1, searchText, searchColumns)

Search(data, searchText, searchColumns) == SearchRows(data, 1, searchText, searchColumns)

\* The search study: grids of SearchRowCount x SearchColCount cells.
SearchRowCount == 2
SearchColCount == 2

SearchCellValues ==
  {StringCell(<<"a">>), StringCell(<<"b", "A">>), StringCell(<<"0">>), NumberZero,
   BooleanFalse, Absent}

SearchGrids == [1..SearchRowCount -> [1..SearchColCount -> SearchCellValues]]

\* searchText is not empty (SearchParamsSchema: z.string().min(1)).
SearchTexts == {<<"a">>, <<"A">>, <<"0">>, <<"a", "l">>}

\* searchColumns: not supplied, or an array of column letters of any size.
NoColumns == [given |-> FALSE, columns |-> <<>>]
ColumnFilters ==
  {NoColumns} \cup
  {[given |-> TRUE, columns |-> c] :
     c \in {<<>>, << <<"A">> >>, << <<"B">> >>, << <<"B">>, <<"A">> >>, << <<"C">> >>}}

InitSearch ==
  /\ IdleMachine
  /\ cellIn = [cellValue |-> Absent, findText |-> <<"a">>, replaceText |-> <<>>,
               matchCase |-> FALSE, matchEntireCell |-> FALSE]
  /\ cellOut = NoCellOut
  /\ utilIn \in [kind : {"search"}, data : SearchGrids, searchText : SearchTexts,
                 searchColumns : ColumnFilters]
  /\ utilOut = NoUtilOut

\* search scans the values readData returned.
DoSearch ==
  /\ utilIn.kind = "search"
  /\ ~utilOut.done
  /\ utilOut' = [done |-> TRUE,
                 results |-> Search(utilIn.data, utilIn.searchText, utilIn.searchColumns)]
  /\ UNCHANGED <<utilIn, cellIn, cellOut, machineVars>>

NextSearch == DoSearch

SpecSearch == InitSearch /\ [][NextSearch]_vars

----------------------------------------------------------------------------
(* Claims about search (SpecSearch) *)

\* The cells of the grid studied, in row-major order.
GridPositions ==
  [k \in 1..(SearchRowCount * SearchColCount) |->
     <<((k - 1) \div SearchColCount) + 1, ((k - 1) % SearchColCount) + 1>>]

\* A cell that holds a value whose string form contains the text, in any case.
ContainsText(cellValue, searchText) ==
  /\ cellValue.kind # "absent"
  /\ Includes(ToLowerCase(cellValue.text), ToLowerCase(searchText))

ResultFor(data, pos) ==
  [cell |-> RowColToA1(pos[1], pos[2]), value |-> data[pos[1]][pos[2]],
   row |-> pos[1], column |-> pos[2]]

\* C11: without a column filter the results are the cells that contain the text,
\* one result each, in row-major order, with row, column and cell address.
C11_OneResultPerMatchRowMajor ==
  (utilIn.kind = "search" /\ utilOut.done /\ ~utilIn.searchColumns.given)
  => LET matching == SelectSeq(GridPositions,
                       LAMBDA pos : ContainsText(utilIn.data[pos[1]][pos[2]],
                                                 utilIn.searchText))
     IN utilOut.results = [k \in DOMAIN matching |-> ResultFor(utilIn.data, matching[k])]

\* C12: every cell that is not absent and whose string form contains the text is
\* reported, the number 0 and the boolean false included.
C12_EveryNonAbsentCellTested ==
  (utilIn.kind = "search" /\ utilOut.done /\ ~utilIn.searchColumns.given)
  => \A r \in 1..SearchRowCount, c \in 1..SearchColCount :
       ContainsText(utilIn.data[r][c], utilIn.searchText)
       => \E k \in DOMAIN utilOut.results :
            utilOut.results[k].row = r /\ utilOut.results[k].column = c

\* C13: with a column filter of any size, no result lies in a column that is not
\* in the filter, and every matching cell of a column in the filter is reported.
C13_ColumnFilterExact ==
  (utilIn.kind = "search" /\ utilOut.done /\ utilIn.searchColumns.given)
  => LET columns == utilIn.searchColumns.columns IN
       /\ \A k \in DOMAIN utilOut.results :
            ColumnListed(columns, ColumnLetter(utilOut.results[k].column))
       /\ \A r \in 1..SearchRowCount, c \in 1..SearchColCount :
            (/\ ColumnListed(columns, ColumnLetter(c))
             /\ ContainsText(utilIn.data[r][c], utilIn.searchText))
            => \E k \in DOMAIN utilOut.results :
                 utilOut.results[k].row = r /\ utilOut.results[k].column = c

----------------------------------------------------------------------------
(* The study of SheetsUtils: one call of rowColToA1 and back, of a1ToRowCol and
   back, of parseRange / isValidRange, or of createSheetRange and
   extractSheetName *)

\* Largest row and column converted; longest address, range and name texts.
MaxRow == 11
MaxCol == 703
MaxAddressLen == 4
MaxRangeLen == 5
MaxNameLen == 2

AddressChars == {"A", "Z", "a", "0", "1", ":"}
AddressTexts ==
  TextsUpTo(AddressChars, MaxAddressLen)
  \cup {<<"A", "A", "2", "7">>, <<"Z", "2", "6">>, <<"B", "2">>,
        <<"i", "n", "v", "a", "l", "i", "d">>}

RangeChars == {"A", "B", "1", "2", ":"}
RangeTexts ==
  TextsUpTo(RangeChars, MaxRangeLen)
  \cup {<<"A", "1", ":", "B", "1", "0">>, <<"Z", "1", ":", "A", "A", "1", "0">>,
        <<"B", "1", "0", ":", "A", "1">>, <<"i", "n", "v", "a", "l", "i", "d">>,
        <<"a", "1", ":", "b", "2">>, <<"A", "1", ":", "B", "2", ":">>}

\* Sheet names, and the optional range of createSheetRange: not given, or a text.
NameChars == {"S", "1", "!"}
SheetNames == TextsUpTo(NameChars, MaxNameLen)
QualifiedChars == {"A", ":", "!"}
OptionalRanges ==
  {[given |-> FALSE, text |-> <<>>]}
  \cup {[given |-> TRUE, text |-> t] : t \in TextsUpTo(QualifiedChars, MaxNameLen)}
  \cup {[given |-> TRUE, text |-> <<"A", "1", ":", "B", "1", "0">>]}

InitUtils ==
  /\ IdleMachine
  /\ cellIn = [cellValue |-> Absent, findText |-> <<"a">>, replaceText |-> <<>>,
               matchCase |-> FALSE, matchEntireCell |-> FALSE]
  /\ cellOut = NoCellOut
  /\ \/ utilIn \in [kind : {"rowColToA1"}, row : 1..MaxRow, col : 1..MaxCol]
     \/ utilIn \in [kind : {"a1ToRowCol"}, a1 : AddressTexts]
     \/ utilIn \in [kind : {"parseRange"}, range : RangeTexts]
     \/ utilIn \in [kind : {"createSheetRange"}, sheetName : SheetNames,
                    range : OptionalRanges]
     \/ utilIn \in [kind : {"extractSheetName"}, range : RangeTexts]
  /\ utilOut = NoUtilOut

\* rowColToA1(row, col), and a1ToRowCol of the text it returns.
DoRowColToA1 ==
  /\ utilIn.kind = "rowColToA1"
  /\ ~utilOut.done
  /\ utilOut' = [done |-> TRUE, a1 |-> RowColToA1(utilIn.row, utilIn.col),
                 back |-> A1ToRowCol(RowColToA1(utilIn.row, utilIn.col))]
  /\ UNCHANGED <<utilIn, cellIn, cellOut, machineVars>>

\* a1ToRowCol(a1), and rowColToA1 of the coordinates it returns.
DoA1ToRowCol ==
  /\ utilIn.kind = "a1ToRowCol"
  /\ ~utilOut.done
  /\ LET address == A1ToRowCol(utilIn.a1) IN
       utilOut' = [done |-> TRUE, address |-> address,
                   back |-> IF address.ok THEN RowColToA1(address.row, address.col)
                            ELSE <<>>]
  /\ UNCHANGED <<utilIn, cellIn, cellOut, machineVars>>

\* parseRange(range) and isValidRange(range).
DoParseRange ==
  /\ utilIn.kind = "parseRange"
  /\ ~utilOut.done
  /\ utilOut' = [done |-> TRUE, parsed |-> ParseRange(utilIn.range),
                 valid |-> IsValidRange(utilIn.range)]
  /\ UNCHANGED <<utilIn, cellIn, cellOut, machineVars>>

\* createSheetRange(sheetName, range?), and extractSheetName of the text it
\* returns.  A range that is not given and the empty string are both falsy.
DoCreateSheetRange ==
  /\ utilIn.kind = "createSheetRange"
  /\ ~utilOut.done
  /\ LET qualified == CreateSheetRange(utilIn.sheetName,
                                       IF utilIn.range.given THEN utilIn.range.text
                                       ELSE <<>>)
     IN utilOut' = [done |-> TRUE, qualified |-> qualified,
                    sheet |-> ExtractSheetName(qualified)]
  /\ UNCHANGED <<utilIn, cellIn, cellOut, machineVars>>

\* extractSheetName(range) of a text without a sheet name.
DoExtractSheetName ==
  /\ utilIn.kind = "extractSheetName"
  /\ ~utilOut.done
  /\ utilOut' = [done |-> TRUE, sheet |-> ExtractSheetName(utilIn.range)]
  /\ UNCHANGED <<utilIn, cellIn, cellOut, machineVars>>

NextUtils ==
  \/ DoRowColToA1
  \/ DoA1ToRowCol
  \/ DoParseRange
  \/ DoCreateSheetRange
  \/ DoExtractSheetName

SpecUtils == InitUtils /\ [][NextUtils]_vars

----------------------------------------------------------------------------
(* Claims about SheetsUtils (SpecUtils) *)

RECURSIVE SumOver(_, _)
SumOver(f, n) == IF n = 0 THEN 0 ELSE f[n] + SumOver(f, n - 1)

\* The number a text of uppercase letters stands for in bijective base 26
\* (A = 1, Z = 26, AA = 27), and the number a text of digits stands for.
ColumnValue(letters) ==
  SumOver([i \in 1..Len(letters) |->
             LetterValue(letters[i]) * Pow(26, Len(letters) - i)], Len(letters))
RowValue(digits) ==
  SumOver([i \in 1..Len(digits) |->
             DigitValue(digits[i]) * Pow(10, Len(digits) - i)], Len(digits))

\* One or more uppercase letters followed by one or more digits, nothing else.
IsAddressText(t) ==
  \E k \in 1..(Len(t) - 1) :
    /\ \A i \in 1..k : IsLetter(t[i])
    /\ \A i \in (k + 1)..Len(t) : IsDigit(t[i])

LettersOf(t) == SelectSeq(t, IsLetter)
DigitsOf(t) == SelectSeq(t, IsDigit)

\* C14: for row >= 1 and column >= 1, a1ToRowCol(rowColToA1(row, column)) is
\* (row, column).
C14_RowColRoundTrip ==
  (utilIn.kind = "rowColToA1" /\ utilOut.done)
  => /\ utilOut.back.ok
     /\ utilOut.back.row = utilIn.row
     /\ utilOut.back.col = utilIn.col

\* Row 10 of the first three-letter column went to "AAA10" and back.
C14_Witness ==
  /\ utilIn.kind = "rowColToA1" /\ utilOut.done
  /\ utilIn.row = 10 /\ utilIn.col = 703
  /\ utilOut.a1 = <<"A", "A", "A", "1", "0">>
  /\ utilOut.back = [ok |-> TRUE, row |-> 10, col |-> 703]

\* C15 as stated: for every text a1ToRowCol accepts, rowColToA1(a1ToRowCol(text))
\* is the text.
C15_TextRoundTrip ==
  (utilIn.kind = "a1ToRowCol" /\ utilOut.done /\ utilOut.address.ok)
  => utilOut.back = utilIn.a1

RECURSIVE StripLeadingZeros(_)
StripLeadingZeros(digits) ==
  IF Len(digits) > 1 /\ Head(digits) = "0" THEN StripLeadingZeros(Tail(digits))
  ELSE digits

\* C15 amended: for every text a1ToRowCol accepts, rowColToA1(a1ToRowCol(text)) is
\* the text with the leading zeros of its row number removed, so it is the text
\* exactly when the row number is written without leading zeros.
C15_TextRoundTripCanonical ==
  (utilIn.kind = "a1ToRowCol" /\ utilOut.done /\ utilOut.address.ok)
  => /\ utilOut.back = LettersOf(utilIn.a1) \o StripLeadingZeros(DigitsOf(utilIn.a1))
     /\ utilOut.back = utilIn.a1
          <=> (Len(DigitsOf(utilIn.a1)) = 1 \/ Head(DigitsOf(utilIn.a1)) # "0")

\* "A01" was accepted as row 1 of column 1 and went back to "A1".
C15_Witness ==
  /\ utilIn.kind = "a1ToRowCol" /\ utilOut.done
  /\ utilIn.a1 = <<"A", "0", "1">>
  /\ utilOut.address = [ok |-> TRUE, row |-> 1, col |-> 1]
  /\ utilOut.back = <<"A", "1">>

\* The positions of the ":" separators of a text.
Separators(t) == {i \in 1..Len(t) : t[i] = ":"}

\* C16: parseRange succeeds exactly when the text has one ":" with a valid address
\* on each side, and then returns the left address as (startRow, startCol) and
\* the right one as (endRow, endCol), columns in bijective base 26.
C16_ParseRangeExact ==
  (utilIn.kind = "parseRange" /\ utilOut.done)
  => LET t == utilIn.range
         k == CHOOSE i \in Separators(t) : TRUE
         left == Slice(t, 1, k - 1)
         right == Slice(t, k + 1, Len(t))
         r == utilOut.parsed
     IN /\ r.ok <=> (/\ Cardinality(Separators(t)) = 1
                     /\ IsAddressText(left)
                     /\ IsAddressText(right))
        /\ r.ok => /\ r.startRow = RowValue(DigitsOf(left))
                   /\ r.startCol = ColumnValue(LettersOf(left))
                   /\ r.endRow = RowValue(DigitsOf(right))
                   /\ r.endCol = ColumnValue(LettersOf(right))
        /\ ~r.ok => r = NoRange
        /\ t = <<"A", "1", ":", "B", "1", "0">>
             => r = [ok |-> TRUE, startRow |-> 1, startCol |-> 1, endRow |-> 10,
                     endCol |-> 2]
        /\ t = <<"i", "n", "v", "a", "l", "i", "d">> => ~r.ok

\* "Z1:AA10" was parsed as (1, 26, 10, 27).
C16_Witness ==
  /\ utilIn.kind = "parseRange" /\ utilOut.done
  /\ utilIn.range = <<"Z", "1", ":", "A", "A", "1", "0">>
  /\ utilOut.parsed = [ok |-> TRUE, startRow |-> 1, startCol |-> 26, endRow |-> 10,
                       endCol |-> 27]

\* C17: every range parseRange and isValidRange accept has startRow <= endRow and
\* startCol <= endCol; a reversed range fails.
C17_ReversedRangeRejected ==
  (utilIn.kind = "parseRange" /\ utilOut.done /\ (utilOut.parsed.ok \/ utilOut.valid))
  => /\ utilOut.parsed.startRow <= utilOut.parsed.endRow
     /\ utilOut.parsed.startCol <= utilOut.parsed.endCol

\* C18: a1ToRowCol accepts a text exactly when it is one or more uppercase letters
\* followed by one or more digits, and then decodes the column in bijective base
\* 26 and the row in base 10; every other text fails.
C18_AddressAcceptedIffWellFormed ==
  (utilIn.kind = "a1ToRowCol" /\ utilOut.done)
  => /\ utilOut.address.ok <=> IsAddressText(utilIn.a1)
     /\ utilOut.address.ok
          => /\ utilOut.address.col = ColumnValue(LettersOf(utilIn.a1))
             /\ utilOut.address.row = RowValue(DigitsOf(utilIn.a1))
     /\ ~utilOut.address.ok => utilOut.address = NoAddress

\* "AA27" was decoded as row 27, column 27.
C18_Witness ==
  /\ utilIn.kind = "a1ToRowCol" /\ utilOut.done
  /\ utilIn.a1 = <<"A", "A", "2", "7">>
  /\ utilOut.address = [ok |-> TRUE, row |-> 27, col |-> 27]

HasBang(t) == \E i \in 1..Len(t) : t[i] = "!"

\* C19 as stated: createSheetRange returns the sheet name alone when no range is
\* given and sheet!range otherwise, so that for a non-empty sheet name without "!"
\* and every range given extractSheetName returns the sheet name; extractSheetName
\* of a text without "!" is null.
C19_QualifyRoundTrip ==
  /\ (utilIn.kind = "createSheetRange" /\ utilOut.done)
     => /\ utilOut.qualified = IF utilIn.range.given
                               THEN utilIn.sheetName \o <<"!">> \o utilIn.range.text
                               ELSE utilIn.sheetName
        /\ (utilIn.sheetName # <<>> /\ ~HasBang(utilIn.sheetName) /\ utilIn.range.given)
           => utilOut.sheet = [found |-> TRUE, name |-> utilIn.sheetName]
  /\ (utilIn.kind = "extractSheetName" /\ utilOut.done /\ ~HasBang(utilIn.range))
     => ~utilOut.sheet.found

\* C19 amended: createSheetRange returns the sheet name alone when the range is
\* not given or empty and sheet!range otherwise, so that for a non-empty sheet name
\* without "!" and every non-empty range extractSheetName returns the sheet name;
\* extractSheetName returns the text before the first "!" and null when there is
\* no "!" or nothing before it.
C19_QualifyRoundTripNonEmpty ==
  /\ (utilIn.kind = "createSheetRange" /\ utilOut.done)
     => LET falsy == ~utilIn.range.given \/ utilIn.range.text = <<>> IN
        /\ utilOut.qualified = IF falsy THEN utilIn.sheetName
                               ELSE utilIn.sheetName \o <<"!">> \o utilIn.range.text
        /\ (utilIn.sheetName # <<>> /\ ~HasBang(utilIn.sheetName) /\ ~falsy)
           => utilOut.sheet = [found |-> TRUE, name |-> utilIn.sheetName]
        /\ (~HasBang(utilIn.sheetName) /\ falsy) => ~utilOut.sheet.found
  /\ (utilIn.kind = "extractSheetName" /\ utilOut.done)
     => /\ ~HasBang(utilIn.range) => ~utilOut.sheet.found
        /\ utilOut.sheet.found
             => /\ ~HasBang(utilOut.sheet.name)
                /\ utilOut.sheet.name # <<>>
                /\ Slice(utilIn.range, 1, Len(utilOut.sheet.name) + 1)
                     = utilOut.sheet.name \o <<"!">>

\* A sheet name qualified with a range that holds a "!" itself came back.
C19_Witness ==
  /\ utilIn.kind = "createSheetRange" /\ utilOut.done
  /\ utilIn.sheetName = <<"S", "1">>
  /\ utilIn.range.given /\ HasBang(utilIn.range.text)
  /\ utilOut.sheet = [found |-> TRUE, name |-> <<"S", "1">>]

----------------------------------------------------------------------------
(* The study of RetryUtil.isRetryableError: one error classified *)

NetworkCodes == {"ECONNRESET", "ENOTFOUND", "ETIMEDOUT"}

\* status || statusCode of the errors classified; 0 stands for neither field set.
ErrorStatuses == {0, 400, 403, 404, 429, 499, 500, 503}

\* Plain error objects with any code, status and message (quota: the message
\* holds 'quota' or 'rate limit'), and RetryableError instances, whose code and
\* statusCode the constructor fixes.
ClassifiedErrors ==
  {ErrorValue("Error", code, status, quota, FALSE) :
     code \in NetworkCodes \cup {"", "EPIPE"}, status \in ErrorStatuses,
     quota \in BOOLEAN}
  \cup {ErrorValue("RetryableError", "RETRYABLE_ERROR", 503, quota, TRUE) :
          quota \in BOOLEAN}

InitClassify ==
  /\ IdleMachine
  /\ cellIn = [cellValue |-> Absent, findText |-> <<"a">>, replaceText |-> <<>>,
               matchCase |-> FALSE, matchEntireCell |-> FALSE]
  /\ cellOut = NoCellOut
  /\ utilIn \in [kind : {"isRetryableError"}, error : ClassifiedErrors]
  /\ utilOut = NoUtilOut

Classify ==
  /\ utilIn.kind = "isRetryableError"
  /\ ~utilOut.done
  /\ utilOut' = [done |-> TRUE, retryable |-> IsRetryableError(utilIn.error)]
  /\ UNCHANGED <<utilIn, cellIn, cellOut, machineVars>>

NextClassify == Classify

SpecClassify == InitClassify /\ [][NextClassify]_vars

\* C20: an error is retryable exactly when its code is a network code, or its
\* status is >= 500 or 429, or its message tells of quota or rate limit, or it is
\* a RetryableError; each of these alone suffices, whatever the other fields are.
C20_RetryableIffAnyCondition ==
  (utilIn.kind = "isRetryableError" /\ utilOut.done)
  => (utilOut.retryable
        <=> \/ utilIn.error.code \in NetworkCodes
            \/ utilIn.error.status >= 500
            \/ utilIn.error.status = 429
            \/ utilIn.error.quota
            \/ utilIn.error.retryable)

----------------------------------------------------------------------------
(* The study of RetryUtil.calculateDelay: the delays one executeWithRetry call
   takes when every attempt fails with a retryable error *)

\* Largest backoffMultiplier, and the largest of the small baseDelay and maxDelay.
MaxMultiplier == 3
MaxSmallDelay == 3

\* The call's configuration: the defaults, and every small baseDelay, maxDelay
\* and backoffMultiplier from 0 on.
InitDelays ==
  /\ IdleMachine
  /\ cellIn = [cellValue |-> Absent, findText |-> <<"a">>, replaceText |-> <<>>,
               matchCase |-> FALSE, matchEntireCell |-> FALSE]
  /\ cellOut = NoCellOut
  /\ utilIn \in [kind : {"calculateDelay"},
                 config : [maxRetries : {DEFAULT_RETRY_CONFIG.maxRetries},
                           baseDelay : 0..MaxSmallDelay \cup {DEFAULT_RETRY_CONFIG.baseDelay},
                           maxDelay : 0..MaxSmallDelay \cup {DEFAULT_RETRY_CONFIG.maxDelay},
                           backoffMultiplier : 0..MaxMultiplier]]
  /\ utilOut = [done |-> FALSE, delays |-> <<>>]

\* The catch block of attempt = 0, 1, ... below maxRetries after a retryable
\* failure: const delay = this.calculateDelay(attempt, retryConfig).
TakeDelay ==
  /\ utilIn.kind = "calculateDelay"
  /\ Len(utilOut.delays) < utilIn.config.maxRetries
  /\ utilOut' = [done |-> Len(utilOut.delays) + 1 = utilIn.config.maxRetries,
                 delays |-> Append(utilOut.delays,
                                   CalculateDelay(Len(utilOut.delays), utilIn.config))]
  /\ UNCHANGED <<utilIn, cellIn, cellOut, machineVars>>

SpecDelays == InitDelays /\ [][TakeDelay]_vars

\* The delay after failed attempt k - 1 is min(baseDelay * backoffMultiplier^(k-1),
\* maxDelay), and so at most maxDelay.
DelaysAsSpecified ==
  \A k \in 1..Len(utilOut.delays) :
    LET raw == utilIn.config.baseDelay * Pow(utilIn.config.backoffMultiplier, k - 1)
    IN /\ utilOut.delays[k] = IF raw < utilIn.config.maxDelay THEN raw
                              ELSE utilIn.config.maxDelay
       /\ utilOut.delays[k] <= utilIn.config.maxDelay

DelaysNonDecreasing ==
  \A k \in 2..Len(utilOut.delays) : utilOut.delays[k - 1] <= utilOut.delays[k]

\* C21 as stated: for every configuration of non-negative integers the delay
\* after failed attempt k is min(baseDelay * backoffMultiplier^k, maxDelay), no
\* delay exceeds maxDelay and the delays never decrease.
C21_DelaysCappedMonotone ==
  utilIn.kind = "calculateDelay" => (DelaysAsSpecified /\ DelaysNonDecreasing)

\* C21: the delay after failed attempt k is min(baseDelay * backoffMultiplier^k,
\* maxDelay) and never exceeds maxDelay for every configuration of non-negative
\* integers; the delays never decrease when backoffMultiplier is at least 1.
C21_DelaysCappedMonotoneFromOne ==
  utilIn.kind = "calculateDelay"
  => /\ DelaysAsSpecified
     /\ utilIn.config.backoffMultiplier >= 1 => DelaysNonDecreasing

\* The defaults: three delays of 1000, 2000 and 4000 ms.
C21_Witness ==
  /\ utilIn.kind = "calculateDelay"
  /\ utilIn.config = DEFAULT_RETRY_CONFIG
  /\ utilOut.done
  /\ utilOut.delays = <<1000, 2000, 4000>>

----------------------------------------------------------------------------
(* Claims about the errors executeWithRetry retries and surfaces (SpecRetry) *)

OnlyFailedWith(p, error) ==
  /\ Len(ret[p].errs) >= 1
  /\ \A i \in DOMAIN ret[p].errs : ret[p].errs[i] = error

\* C22: an operation that rejects with a plain Error carrying no code and no
\* status is retried: with a retry left the call does not end after the first
\* failure, one failure followed by a success ends well after exactly 2
\* invocations, and with maxRetries = 2 an operation that always fails is invoked
\* exactly 3 times before the error is rethrown.
C22_PlainErrorRetried ==
  \A p \in Callers :
    (Ended(p) /\ OnlyFailedWith(p, PlainError)) =>
      /\ ret[p].maxRetries >= 1 => ret[p].inv >= 2
      /\ (ret[p].kind = "ok" /\ Len(ret[p].errs) = 1) => ret[p].inv = 2
      /\ (ret[p].kind = "err" /\ ret[p].maxRetries = 2) => ret[p].inv = 3

\* C26: when every attempt failed because the remote quota is exhausted and the
\* retries ran out, the error the call rejects with is an APIQuotaExceededError
\* (code API_QUOTA_EXCEEDED).
C26_QuotaExhaustionSurfaced ==
  \A p \in Callers :
    (/\ Ended(p) /\ ret[p].kind = "err"
     /\ OnlyFailedWith(p, RemoteQuotaError)
     /\ ret[p].inv = ret[p].maxRetries + 1) =>
      /\ ret[p].err.name = "APIQuotaExceededError"
      /\ ret[p].err.code = "API_QUOTA_EXCEEDED"

----------------------------------------------------------------------------
(* Claims about the delay of a check at the limit (Spec) *)

\* The admissions the record held, inside the window, at a check made at now.
LiveAt(now) ==
  {i \in DOMAIN admitted : admitted[i] <= now /\ now - admitted[i] < windowMs}

\* C23: a check that finds maxRequests timestamps inside the window is not
\* admitted at once: the caller sleeps until the oldest of them plus windowMs and
\* is admitted no earlier; a call is recorded only when fewer than maxRequests
\* timestamps are inside the window, so the admission that follows maxRequests
\* others comes at least windowMs after the first of them.
C23_AtLimitWaitsForOldest ==
  /\ \A p \in Callers :
       At(p, "rl_sleep") =>
         /\ Cardinality(LiveAt(Top(p).now)) >= maxRequests
         /\ \E i \in LiveAt(Top(p).now) :
              /\ \A j \in LiveAt(Top(p).now) : admitted[i] <= admitted[j]
              /\ Top(p).wake = admitted[i] + windowMs
  /\ \A p \in Callers :
       At(p, "rl_push") => Cardinality(LiveAt(Top(p).now)) < maxRequests
  /\ \A p \in Callers :
       (Depth(p) > 0 /\ Top(p).pc \in {"rl_push", "admitted"} /\ Top(p).wake > 0)
         => Top(p).now >= Top(p).wake
  /\ \A i \in DOMAIN admitted :
       i > maxRequests => admitted[i] >= admitted[i - maxRequests] + windowMs

\* RateLimiter(2, window): two calls admitted at the same instant, and the third,
\* which had to sleep until the first plus the window, admitted no earlier.
C23_Witness ==
  /\ maxRequests = 2
  /\ Len(admitted) = 3
  /\ admitted[2] = admitted[1]
  /\ admitted[3] >= admitted[1] + windowMs
  /\ \E p \in Callers :
       At(p, "admitted") /\ Top(p).wake = admitted[1] + windowMs
                         /\ Top(p).now = admitted[3]

----------------------------------------------------------------------------
(* Claims about fatal errors (SpecFatal) *)

\* The error is a malformed-range or a not-found failure.
Fatal(error) == error.name \in {"Error: Invalid range format", "SheetNotFoundError"}

\* C24: a malformed-range or not-found error is fatal at every nesting level: the
\* executeWithRetry call whose operation raised it, or whose operation it came
\* through, does not go on to another attempt; it rejects with that error after
\* the invocation that raised it.
C24_FatalErrorsNotRetried ==
  \A p \in Callers :
    /\ \A k \in 1..Depth(p) :
         \A i \in DOMAIN stack[p][k].errs : ~Fatal(stack[p][k].errs[i])
    /\ Ended(p) =>
         \A i \in DOMAIN ret[p].errs :
           Fatal(ret[p].errs[i]) =>
             /\ i = Len(ret[p].errs)
             /\ ret[p].inv = i
             /\ ret[p].kind = "err"
             /\ ret[p].err = ret[p].errs[i]

----------------------------------------------------------------------------
(* The study of the tool boundary: one tool call through the CallTool handler
   of the server (src/index.ts), the handler of a tool (src/tools/index.ts) and
   ErrorHandler.handleError; and one call of RetryUtil.handleQuotaError.
   A message is a sequence of characters and fixed pieces of text. *)

\* Longest message text an error is constructed with.
MaxMessageLen == 2

\* new ValidationError(message)
ValidationError(message) ==
  [isError |-> TRUE, class |-> "ValidationError", code |-> "VALIDATION_ERROR",
   message |-> <<"Validation error: ">> \o message]

\* What the body of a tool handler may throw: the errors of the service
\* (SheetNotFoundError, InvalidRangeError, APIQuotaExceededError, the Error of a
\* remote call or of a schema that does not parse), a ValidationError, and a value
\* that is no Error.
ThrownValues ==
  LET texts == TextsUpTo({"a", "b"}, MaxMessageLen) IN
  {[isError |-> TRUE, class |-> "SheetNotFoundError", code |-> "SHEET_NOT_FOUND",
    message |-> <<"Sheet not found: ">> \o m] : m \in texts}
  \cup {[isError |-> TRUE, class |-> "InvalidRangeError", code |-> "INVALID_RANGE",
         message |-> <<"Invalid range format: ">> \o m] : m \in texts}
  \cup {[isError |-> TRUE, class |-> "APIQuotaExceededError", code |-> "API_QUOTA_EXCEEDED",
         message |-> <<"Google API quota exceeded">>]}
  \cup {[isError |-> TRUE, class |-> "Error", code |-> "", message |-> m] : m \in texts}
  \cup {ValidationError(m) : m \in texts}
  \cup {[isError |-> FALSE, class |-> "string", code |-> "", message |-> <<>>]}

\* The catch block of every tool handler: an Error is replaced by a new
\* ValidationError with its message, any other value is rethrown.
HandlerCatch(error) ==
  IF error.isError THEN ValidationError(error.message) ELSE error

\* handleError with a second content item for the error code.
HandleErrorWithCode(error) ==
  [content |-> <<[type |-> "text", text |-> error.message],
                 [type |-> "text", text |-> <<error.code>>]>>,
   isError |-> TRUE]

\* ErrorHandler.handleError
HandleError(error) ==
  LET errorMessage ==
        IF error.isError /\ error.class \in {"AuthenticationError", "SpreadsheetNotFoundError",
                                             "SheetNotFoundError", "InvalidRangeError",
                                             "APIQuotaExceededError", "ValidationError",
                                             "RetryableError", "GoogleSheetsMCPError"}
        THEN IF error.class = "ValidationError"
             THEN <<"Validation Error: ">> \o error.message
             ELSE error.message
        ELSE IF error.isError THEN error.message
        ELSE <<"An unknown error occurred">>
  IN [content |-> <<[type |-> "text", text |-> errorMessage]>>, isError |-> TRUE]

\* handleQuotaError throwing a new APIQuotaExceededError for every error.
HandleQuotaErrorAlways(error) ==
  ErrorValue("APIQuotaExceededError", "API_QUOTA_EXCEEDED", 429, TRUE, FALSE)

\* RetryUtil.handleQuotaError: the value it throws.
HandleQuotaError(error) ==
  IF error.quota
  THEN ErrorValue("APIQuotaExceededError", "API_QUOTA_EXCEEDED", 429, TRUE, FALSE)
  ELSE error

\* The inputs of the unit tests of extractSpreadsheetId: an ID, the URL of a
\* spreadsheet with and without a path after the ID, and the text 'invalid'.
ExtractExamples ==
  [id |-> <<"1", "A", "2", "B", "3", "C", "4", "D", "5", "E", "6", "F", "7",
         "G", "8", "H", "9", "I", "0", "J">>,
   url |-> <<"h", "t", "t", "p", "s", ":", "/", "/", "d", "o", "c", "s", ".",
          "g", "o", "o", "g", "l", "e", ".", "c", "o", "m", "/", "s", "p",
          "r", "e", "a", "d", "s", "h", "e", "e", "t", "s", "/", "d", "/",
          "1", "A", "2", "B", "3", "C", "4", "D", "5", "E", "6", "F", "7",
          "G", "8", "H", "9", "I", "0", "J", "/", "e", "d", "i", "t">>,
   shortUrl |-> <<"h", "t", "t", "p", "s", ":", "/", "/", "d", "o", "c", "s",
               ".", "g", "o", "o", "g", "l", "e", ".", "c", "o", "m", "/",
               "s", "p", "r", "e", "a", "d", "s", "h", "e", "e", "t", "s",
               "/", "d", "/", "1", "A", "2", "B", "3", "C", "4", "D", "5",
               "E", "6", "F", "7", "G", "8", "H", "9", "I", "0", "J">>,
   invalid |-> <<"i", "n", "v", "a", "l", "i", "d">>]

\* Longest of the short texts extractSpreadsheetId is applied to.
MaxInputLen == 4

\* extractSpreadsheetId: the test of /^[a-zA-Z0-9-_]+$/, then the first of the
\* URL patterns /\/spreadsheets\/d\/([a-zA-Z0-9-_]+)/, /\/d\/([a-zA-Z0-9-_]+)/ and
\* /id=([a-zA-Z0-9-_]+)/ that matches; ok = FALSE stands for the thrown Error.
ExtractSpreadsheetId(input) ==
  LET IsIdChar(c) ==
        \/ IsLetter(c) \/ IsDigit(c) \/ c \in {"-", "_"}
        \/ c \in {"a", "b", "c", "d", "e", "f", "g", "h", "i", "j", "k", "l",
                "m", "n", "o", "p", "q", "r", "s", "t", "u", "v", "w", "x",
                "y", "z"}
      Match(prefix) ==
        LET n == Len(prefix)
            starts == {i \in 1..(Len(input) - n) :
                         Slice(input, i, i + n - 1) = prefix /\ IsIdChar(input[i + n])}
        IN IF starts = {} THEN <<>>
           ELSE LET i == CHOOSE s \in starts : \A t \in starts : s <= t
                    ends == {k \in (i + n)..Len(input) :
                               \A l \in (i + n)..k : IsIdChar(input[l])}
                    j == CHOOSE k \in ends : \A l \in ends : l <= k
                IN Slice(input, i + n, j)
  IN IF input # <<>> /\ \A i \in 1..Len(input) : IsIdChar(input[i])
     THEN [ok |-> TRUE, id |-> input]
     ELSE IF Match(<<"/", "s", "p", "r", "e", "a", "d", "s", "h", "e", "e", "t",
                "s", "/", "d", "/">>) # <<>>
     THEN [ok |-> TRUE,
           id |-> Match(<<"/", "s", "p", "r", "e", "a", "d", "s", "h", "e",
                       "e", "t", "s", "/", "d", "/">>)]
     ELSE IF Match(<<"/", "d", "/">>) # <<>> THEN [ok |-> TRUE, id |-> Match(<<"/", "d", "/">>)]
     ELSE IF Match(<<"i", "d", "=">>) # <<>> THEN [ok |-> TRUE, id |-> Match(<<"i", "d", "=">>)]
     ELSE [ok |-> FALSE, id |-> <<>>]

InitHandlers ==
  /\ IdleMachine
  /\ cellIn = [cellValue |-> Absent, findText |-> <<"a">>, replaceText |-> <<>>,
               matchCase |-> FALSE, matchEntireCell |-> FALSE]
  /\ cellOut = NoCellOut
  /\ \/ utilIn \in [kind : {"callTool"}, found : BOOLEAN, threw : BOOLEAN,
                     error : ThrownValues]
     \/ utilIn \in [kind : {"handleQuotaError"}, error : ClassifiedErrors]
     \/ utilIn \in [kind : {"extractSpreadsheetId"},
                     input : TextsUpTo({"x", "i", "d", "=", "/"}, MaxInputLen)
                             \cup {ExtractExamples.id, ExtractExamples.url,
                                   ExtractExamples.shortUrl, ExtractExamples.invalid}]
  /\ utilOut = NoUtilOut

\* The CallTool request handler: handleToolCall looks the tool up (found) and
\* awaits its handler, whose body returns a result or throws (threw, error); the
\* handler's catch block, then the server's try / catch around it.
CallTool ==
  /\ utilIn.kind = "callTool"
  /\ ~utilOut.done
  /\ LET failed == ~utilIn.found \/ utilIn.threw
         thrown == IF ~utilIn.found
                   THEN [isError |-> TRUE, class |-> "Error", code |-> "",
                         message |-> <<"Tool ", "name",
                                       " not found or handler is not a function">>]
                   ELSE HandlerCatch(utilIn.error)
     IN utilOut' =
          [done |-> TRUE,
           rejected |-> FALSE,
           relayed |-> IF failed THEN thrown ELSE utilIn.error,
           responses |->
             <<IF failed THEN HandleError(thrown)
               ELSE [content |-> <<[type |-> "text",
                                    text |-> <<"JSON.stringify(", "result", ")">>]>>]>>]
  /\ UNCHANGED <<utilIn, cellIn, cellOut, machineVars>>

DoHandleQuotaError ==
  /\ utilIn.kind = "handleQuotaError"
  /\ ~utilOut.done
  /\ utilOut' = [done |-> TRUE, returned |-> FALSE, thrown |-> HandleQuotaError(utilIn.error)]
  /\ UNCHANGED <<utilIn, cellIn, cellOut, machineVars>>

DoExtractSpreadsheetId ==
  /\ utilIn.kind = "extractSpreadsheetId"
  /\ ~utilOut.done
  /\ utilOut' = [done |-> TRUE, result |-> ExtractSpreadsheetId(utilIn.input)]
  /\ UNCHANGED <<utilIn, cellIn, cellOut, machineVars>>

SpecHandlers ==
  InitHandlers /\ [][CallTool \/ DoHandleQuotaError \/ DoExtractSpreadsheetId]_vars

----------------------------------------------------------------------------
(* Claims about the tool boundary (SpecHandlers) *)

ToolCallDone == utilIn.kind = "callTool" /\ utilOut.done

\* The body of a found tool's handler threw an Error.
ServiceFailed == utilIn.found /\ utilIn.threw /\ utilIn.error.isError

\* C25: the error a tool handler relays for a failed operation has the kind of
\* the error the service raised: the same class and the same code.
C25_KindKeptAcrossBoundary ==
  (ToolCallDone /\ ServiceFailed)
  => /\ utilOut.relayed.class = utilIn.error.class
     /\ utilOut.relayed.code = utilIn.error.code

\* C27: handleQuotaError never returns normally; for an error whose message tells
\* of quota or rate limit it throws an APIQuotaExceededError (API_QUOTA_EXCEEDED,
\* 429), for every other error it throws that error unchanged.
C27_QuotaHelperAlwaysThrows ==
  (utilIn.kind = "handleQuotaError" /\ utilOut.done)
  => /\ ~utilOut.returned
     /\ utilIn.error.quota =>
          /\ utilOut.thrown.name = "APIQuotaExceededError"
          /\ utilOut.thrown.code = "API_QUOTA_EXCEEDED"
          /\ utilOut.thrown.status = 429
     /\ ~utilIn.error.quota => utilOut.thrown = utilIn.error

\* An error with status 403 and a quota message became an APIQuotaExceededError.
C27_Witness ==
  /\ utilIn.kind = "handleQuotaError" /\ utilOut.done
  /\ utilIn.error.quota /\ utilIn.error.status = 403
  /\ utilOut.thrown.name = "APIQuotaExceededError"

\* C28: every tool call ends in exactly one response and never rejects; a
\* successful handler gives one text item with the JSON result and no isError, any
\* failure (unknown tool, an Error, a thrown value that is no Error) gives
\* isError = true and exactly one text item.
C28_OneResponseNeverRejects ==
  ToolCallDone
  => /\ ~utilOut.rejected
     /\ Len(utilOut.responses) = 1
     /\ LET response == utilOut.responses[1] IN
          /\ Len(response.content) = 1
          /\ response.content[1].type = "text"
          /\ IF ~utilIn.found \/ utilIn.threw
             THEN DOMAIN response = {"content", "isError"} /\ response.isError
             ELSE /\ DOMAIN response = {"content"}
                  /\ response.content[1].text = <<"JSON.stringify(", "result", ")">>

\* The handler of a found tool threw a value that is no Error: one error response.
C28_Witness ==
  /\ ToolCallDone
  /\ utilIn.found /\ utilIn.threw /\ ~utilIn.error.isError
  /\ utilOut.responses = <<[content |-> <<[type |-> "text",
                                           text |-> <<"An unknown error occurred">>]>>,
                            isError |-> TRUE]>>

\* C29: handleError renders a ValidationError constructed with message m (here
\* the one the tool handler constructs with the message of the error it caught)
\* as "Validation Error: " followed by m exactly, a generic Error as its message,
\* a value that is no Error as 'An unknown error occurred', with isError true.
C29_ValidationErrorRendered ==
  (ToolCallDone /\ (~utilIn.found \/ utilIn.threw))
  => LET response == utilOut.responses[1] IN
       /\ response.isError
       /\ ServiceFailed =>
            response.content[1].text = <<"Validation Error: ">> \o utilIn.error.message
       /\ ~utilIn.found => response.content[1].text = utilOut.relayed.message
       /\ (utilIn.found /\ ~utilIn.error.isError) =>
            response.content[1].text = <<"An unknown error occurred">>

\* C30: extractSpreadsheetId returns an ID unchanged, returns the ID embedded in
\* a spreadsheet URL, and throws for the text 'invalid'.
C30_ExtractIdOrThrow ==
  (utilIn.kind = "extractSpreadsheetId" /\ utilOut.done)
  => /\ utilIn.input = ExtractExamples.id =>
          utilOut.result = [ok |-> TRUE, id |-> ExtractExamples.id]
     /\ utilIn.input \in {ExtractExamples.url, ExtractExamples.shortUrl} =>
          utilOut.result = [ok |-> TRUE, id |-> ExtractExamples.id]
     /\ utilIn.input = ExtractExamples.invalid => ~utilOut.result.ok

----------------------------------------------------------------------------
(* Claims about executeWithRetry: success, sequencing (SpecRetry, SpecService) *)

\* C31: as soon as an invocation of the operation succeeds the call returns: the
\* successful invocation is the last one, every earlier invocation failed, no
\* delay follows the success (one delay per failure, none more), the API was
\* called once per invocation, and an operation that succeeds on the first
\* attempt was invoked exactly once.
C31_SuccessReturnsAtOnce ==
  \A p \in Callers :
    /\ (Ended(p) /\ ret[p].kind = "ok") =>
         /\ ret[p].inv = Len(ret[p].errs) + 1
         /\ ret[p].sleeps = Len(ret[p].errs)
         /\ issued = ret[p].inv
         /\ ret[p].err = NoError
         /\ Len(ret[p].errs) = 0 => ret[p].inv = 1 /\ ret[p].sleeps = 0
    /\ \A k \in 1..Depth(p) :
         stack[p][k].pc \in {"backoff", "catch"} => stack[p][k].err # NoError

\* With retries left the first invocation succeeded and the call returned after
\* that one invocation; nothing is left to run.
C31_Witness ==
  \E p \in Callers :
    /\ Ended(p) /\ ret[p].kind = "ok"
    /\ ret[p].maxRetries >= 1
    /\ ret[p].inv = 1 /\ ret[p].sleeps = 0 /\ issued = 1
    /\ calls[p] = args[p].calls

\* The cells the caller has written since its call began.
CellsWritten(p) == {writes[i].cellRef : i \in {j \in DOMAIN writes : writes[j].caller = p}}

\* C32: the count smartReplace reports (modifiedCells: replacements.length, the
\* length of the list returned) is a lower bound of the work done: the cells
\* listed are distinct, each was written during the call, and so the count is at
\* most the number of distinct cells written, re-attempts included.
C32_ModifiedCountLowerBound ==
  \A p \in Callers :
    (Ended(p) /\ ret[p].op = "smartReplace" /\ ret[p].kind = "ok") =>
      LET replacements == ret[p].replacements IN
        /\ Len(replacements) <= Cardinality(CellsWritten(p))
        /\ \A i \in DOMAIN replacements : replacements[i].cell \in CellsWritten(p)
        /\ \A i, j \in DOMAIN replacements :
             replacements[i].cell = replacements[j].cell => i = j

\* A write failed for good after another had been made, the whole operation was
\* re-attempted and returned: it reports fewer cells than were written.
C32_Witness ==
  \E p \in Callers :
    /\ Ended(p) /\ ret[p].op = "smartReplace" /\ ret[p].kind = "ok"
    /\ ret[p].inv >= 2
    /\ Len(ret[p].replacements) >= 1
    /\ Len(ret[p].replacements) < Cardinality(CellsWritten(p))

----------------------------------------------------------------------------
(* Claims about RateLimiter: the purge, the record (Spec) *)

\* The caller's check goes from the purge to the limit test in this step.
PurgeStep(p) == At(p, "rl_filter") /\ Depth(p)' > 0 /\ Top(p)'.pc = "rl_test"

\* C33 as stated: the purge of every check removes exactly the timestamps older
\* than now - windowMs (t < now - windowMs) and keeps the others, one that is
\* exactly windowMs old included.
C33_PurgeKeepsWindowOld ==
  [][\A p \in Callers :
       PurgeStep(p) =>
         requests' = SelectSeq(requests, LAMBDA t : ~(t < Top(p).now - windowMs))]_vars

\* C33: the purge of every check removes exactly the timestamps that are windowMs
\* old or older (t <= now - windowMs) and keeps every younger one, in order; a
\* timestamp exactly windowMs old is removed.  The record changes in no other way
\* than by a purge or by the push of an admission.
C33_PurgeRemovesWindowOld ==
  [][/\ \A p \in Callers :
          PurgeStep(p) =>
            requests' = SelectSeq(requests, LAMBDA t : t > Top(p).now - windowMs)
     /\ requests' # requests =>
          \E p \in Callers :
            \/ PurgeStep(p)
            \/ At(p, "rl_push") /\ requests' = Append(requests, Top(p).now)]_vars

\* A caller woke when the oldest admission was exactly windowMs old, and its
\* purge has removed that timestamp from the record.
C33_Witness ==
  \E p \in Callers :
    /\ At(p, "rl_test")
    /\ Top(p).wake > 0
    /\ \E i \in DOMAIN admitted : admitted[i] = Top(p).now - windowMs
    /\ \A i \in DOMAIN requests : requests[i] # Top(p).now - windowMs

\* The case of C34 (at the limit with waitTime <= 0) in the program: when a check
\* reaches the limit test the purge of the same check, made with the same now,
\* has left only timestamps younger than windowMs, so at the limit waitTime is
\* positive and the test always suspends the caller; the branch that records
\* with the record at its limit is never taken.
LimitTestAlwaysSuspends ==
  \A p \in Callers :
    (At(p, "rl_test") /\ AtLimit(requests, maxRequests)) =>
      /\ \A i \in DOMAIN requests : Top(p).now - requests[i] < windowMs
      /\ WaitTime(requests, Top(p).now, windowMs) > 0

\* The calls of checkRateLimit the caller has made that have recorded their
\* timestamp: all it has started, but the one still before its push.
RecordedCalls(p) ==
  IF Depth(p) > 0 /\ Top(p).pc # "admitted" THEN calls[p] - 1 ELSE calls[p]

\* C35: with maxRequests >= 1 and a clock that never steps back, after every step
\* of checkRateLimit the record holds at most maxRequests timestamps, none later
\* than the current time, and they are the latest admissions in order; every
\* admission has appended exactly one timestamp, so the timestamps ever recorded
\* are as many as the admitted calls, and a call in progress, however often it
\* woke, has recorded none before its admission and one after it.
C35_RecordInvariant ==
  /\ maxRequests >= 1
  /\ Len(requests) <= maxRequests
  /\ \A i \in DOMAIN requests : requests[i] <= clock
  /\ Len(requests) <= Len(admitted)
  /\ requests = SubSeq(admitted, Len(admitted) - Len(requests) + 1, Len(admitted))
  /\ Len(admitted) =
       Cardinality({c \in Callers \X (1..MaxCalls) : c[2] <= RecordedCalls(c[1])})
  /\ \A p \in Callers : \A k \in 1..Depth(p) :
       stack[p][k].admissions = IF stack[p][k].pc = "admitted" THEN 1 ELSE 0

\* A caller that had to sleep and woke has just been admitted: it has recorded
\* one timestamp, the record is full again and an older timestamp is gone.
C35_Witness ==
  \E p \in Callers :
    /\ At(p, "admitted")
    /\ Top(p).wake > 0 /\ Top(p).now >= Top(p).wake
    /\ Top(p).admissions = 1
    /\ Len(requests) = maxRequests
    /\ Len(admitted) > maxRequests

----------------------------------------------------------------------------
(* Liveness of admission (SpecLive) *)

\* Time passes while a timer of sleep(waitTime) or sleep(delay) is pending,
\* however late it is.
TimerTick ==
  /\ running = 0
  /\ \A p \in Callers : ~MicrotaskPending(p)
  /\ \E p \in Callers : (At(p, "rl_sleep") \/ At(p, "backoff")) /\ Top(p).wake > clock
  /\ clock' = clock + 1
  /\ UNCHANGED <<requests, maxRequests, windowMs, running, stack, ret, args, calls, sheet,
                 faults, failures, admitted, issued, writes, cellVars>>

\* One caller more than in Spec, each with one call of checkRateLimit().
InitLive ==
  InitMachine(1..(NumCallers + 1),
              {[a EXCEPT !.calls = 1] : a \in LimiterArguments},
              {ServiceSheet}, 1..MaxMaxRequests, {MaxWindow}, {})

\* The event loop: time reaches every pending timer, a timer that is due fires
\* once the thread is free, and a caller that can run does.  Callers issue their
\* calls whenever they like, or never.
SpecLive ==
  /\ InitLive
  /\ [][Next \/ TimerTick]_vars
  /\ WF_vars(TimerTick)
  /\ \A p \in 1..(NumCallers + 1) :
       /\ WF_vars(RlWake(p))
       /\ WF_vars(RlNow(p) \/ RlFilter(p) \/ RlTest(p) \/ RlPush(p) \/ CheckReturns(p))

\* C36: with maxRequests >= 1, windowMs > 0 and the finitely many calls of
\* concurrent callers sharing one RateLimiter, every call of checkRateLimit that
\* was issued is eventually admitted and returns: no caller sleeps and re-checks
\* forever.
C36_EveryCallAdmitted ==
  \A p \in 1..(NumCallers + 1) :
    (Depth(p) > 0) ~> (Depth(p) = 0 /\ ret[p].kind = "ok")

\* Every caller has made all its calls and all were admitted, some after a sleep:
\* more timestamps were recorded than one window takes.
C36_Witness ==
  /\ \A p \in Callers : calls[p] = args[p].calls /\ Ended(p) /\ ret[p].kind = "ok"
  /\ Len(admitted) = NumCallers + 1
  /\ Len(admitted) > 2 * maxRequests
  /\ maxRequests >= 1 /\ windowMs > 0

----------------------------------------------------------------------------
(* Nested retry executors (SpecNested) *)

\* The API call fails, every time it is made.
RemoteFailsAlways(p) ==
  /\ CanRun(p)
  /\ At(p, "remote_wait")
  /\ \E e \in faults :
       stack' = SetTop(p, [Top(p) EXCEPT !.pc = "catch", !.err = e])
  /\ failures' = failures + 1
  /\ running' = p
  /\ UNCHANGED <<clock, requests, maxRequests, windowMs, ret, args, calls, sheet, faults,
                 admitted, issued, writes, cellVars>>

\* One readData call, with the default configuration, whose metadata fetch fails
\* with a 503 every time; the limiter admits one call per window or
\* ServiceMaxRequests.
SpecNested ==
  /\ InitMachine({1},
                 {Arguments("readData", DEFAULT_RETRY_CONFIG, "Sheet1", <<"a">>, <<>>, <<>>,
                            FALSE, FALSE, <<>>, <<>>)},
                 {ServiceSheet}, {1, ServiceMaxRequests}, {ServiceWindow}, {ServerError})
  /\ [][\/ Tick
        \/ TimerTick
        \/ \E p \in Callers : Start(p)
        \/ \E p \in Callers : Invoke(p)
        \/ \E p \in Callers : RlNow(p)
        \/ \E p \in Callers : RlFilter(p)
        \/ \E p \in Callers : RlTest(p)
        \/ \E p \in Callers : RlWake(p)
        \/ \E p \in Callers : RlPush(p)
        \/ \E p \in Callers : RemoteIssue(p)
        \/ \E p \in Callers : CallChild(p)
        \/ \E p \in Callers : ChildFailed(p)
        \/ \E p \in Callers : RemoteFailsAlways(p)
        \/ \E p \in Callers : Catch(p)
        \/ \E p \in Callers : BackoffWake(p)]_vars

\* C37: the retry executors of readData and of the getSpreadsheetInfo it calls
\* nest and multiply: with the default maxRetries = 3 and a metadata fetch that
\* always fails with a retryable error, one readData call issues the fetch
\* exactly (maxRetries + 1)^2 = 16 times, never more, each after an admission
\* of its own (and readData itself is admitted once per invocation on top).
C37_NestedRetriesMultiply ==
  LET n == DEFAULT_RETRY_CONFIG.maxRetries + 1 IN
    /\ n * n = 16
    /\ issued <= n * n
    /\ issued <= Len(admitted)
    /\ \A p \in Callers :
         /\ Depth(p) = 2 =>
              /\ stack[p][1].op = "readData" /\ stack[p][2].op = "getSpreadsheetInfo"
              /\ issued <= (stack[p][1].inv - 1) * n + stack[p][2].inv
              /\ Len(admitted) >= stack[p][1].inv + issued
         /\ Ended(p) =>
              /\ ret[p].op = "readData" /\ ret[p].kind = "err" /\ ret[p].err = ServerError
              /\ ret[p].inv = n
              /\ issued = n * n
              /\ failures = n * n
              /\ Len(admitted) = n * n + n

\* The readData call has rejected after its fourth invocation and the sixteenth
\* fetch.
C37_Witness ==
  \E p \in Callers :
    /\ Ended(p) /\ ret[p].op = "readData" /\ ret[p].kind = "err"
    /\ ret[p].inv = 4 /\ ret[p].sleeps = 3
    /\ issued = 16

----------------------------------------------------------------------------
(* Sequencing of attempts (SpecService) *)

\* C38: the attempts of one executeWithRetry call are strictly sequential: the
\* invocations started exceed the failed ones by one at most (never two in
\* flight), attempt k + 1 starts only after attempt k failed with a retryable
\* error and its backoff delay, counted from that attempt's admission, has
\* elapsed, and executeWithRetry calls that are active at the same time (a method
\* and the method it awaits) count their attempts each from zero, on their own.
C38_AttemptsSequential ==
  \A p \in Callers :
    /\ \A k \in 1..Depth(p) :
         LET f == stack[p][k] IN
           /\ f.attempt <= f.config.maxRetries
           /\ Len(f.errs) = IF f.pc = "backoff" THEN f.attempt + 1 ELSE f.attempt
           /\ f.inv - Len(f.errs) \in {0, 1}
           /\ f.inv = 0 => (f.attempt = 0 /\ f.sleeps = 0 /\ f.lastError = NoError)
           /\ f.pc = "backoff" =>
                /\ IsRetryableError(f.lastError)
                /\ f.wake >= f.now + DelayTicks(CalculateDelay(f.attempt, f.config))
           /\ (f.pc = "invoke" /\ f.attempt > 0) =>
                /\ IsRetryableError(f.lastError)
                /\ f.lastError = f.errs[f.attempt]
                /\ f.sleeps = f.attempt
                /\ clock >= f.wake
                /\ f.wake >= f.now + DelayTicks(CalculateDelay(f.attempt - 1, f.config))
           /\ (k < Depth(p)) = (f.pc = "child_wait")
    /\ Ended(p) => ret[p].inv - Len(ret[p].errs) \in {0, 1}

\* A method is in its second attempt, started after a retryable failure and the
\* delay that followed it, while the method it awaits starts its own first
\* attempt.
C38_Witness ==
  \E p \in Callers :
    /\ Depth(p) >= 2
    /\ stack[p][1].attempt = 1 /\ stack[p][1].inv = 2 /\ stack[p][1].sleeps = 1
    /\ IsRetryableError(stack[p][1].lastError)
    /\ clock >= stack[p][1].wake
    /\ Top(p).pc = "invoke" /\ Top(p).attempt = 0 /\ Top(p).inv = 0

====
